---- MODULE Spec2Model ----
(***************************************************************************)
(* The file-based response caches of perfdive: the GitHub-domain manager   *)
(* (internal/github/cache.go: activity snapshots, pull requests, issues)   *)
(* and the Jira-domain manager (internal/jira/cache.go: issues).           *)
(*                                                                         *)
(* One behaviour follows one manager: the two managers own disjoint        *)
(* directories and share no state.  Init fixes the kinds of entries the    *)
(* manager's callers use in the behaviour (kinds).  Time is a discrete     *)
(* clock whose unit is one hour.  A string is a sequence of one-character  *)
(* strings, so that fmt.Sprintf's joins are computed and two identities    *)
(* that render to the same file name do collide.                           *)
(***************************************************************************)
EXTENDS Integers, Sequences, FiniteSets, TLC

VARIABLES
    kinds,     \* the kinds of entries the callers of this behaviour use
    now,       \* time.Now(), in hours
    entries,   \* c.metadata.Entries: relative path -> CacheMetadataEntry
    metaDoc,   \* the metadata.json document on disk
    files,     \* the blob files on disk: relative path -> file content
    blocked,   \* the calling goroutine is parked in mu.Lock() for ever
    last,      \* the last cache operation called and what it returned
    mu,        \* c.mu, the sync.RWMutex of the manager: who holds it
    goroutines,\* where each goroutine that calls the manager stands in its call
    cli        \* a run of the perfdive cache command: environment and output

vars == <<kinds, now, entries, metaDoc, files, blocked, last, mu, goroutines, cli>>

\* what the calls of one goroutine at a time, each run to its end, leave alone
idle == <<mu, goroutines, cli>>

(***************************************************************************)
(* Bounds of the model.                                                    *)
(***************************************************************************)
\* The clock is read in the first MaxEarly hours and again from PRTTL hours on,
\* for as long: the hours in which an entry written early is fresh, at its
\* expiry, and past it.
MaxEarly == 1

\* The goroutines that call one manager at the same time
NumGoroutines == 2

(***************************************************************************)
(* Program constants (hours).                                              *)
(***************************************************************************)
ActivityTTL == 1
PRTTL == 24
JiraTTL == 24

Times == (0..MaxEarly) \cup (PRTTL..(PRTTL + MaxEarly))

Goroutines == 1..NumGoroutines

(***************************************************************************)
(* Strings and identities.                                                 *)
(***************************************************************************)
US == <<"_">>
Ext == <<".", "j", "s", "o", "n">>

\* (username, startDate, endDate)
ActivityIdents ==
    { << <<"a", "_", "b">>, <<"c">>, <<"d">> >>,
      << <<"a">>, <<"b", "_", "c">>, <<"d">> >> }

\* (owner, repo, number)
PRIdents ==
    { << <<"a", "_", "b">>, <<"c">>, <<"1">> >>,
      << <<"a">>, <<"b", "_", "c">>, <<"1">> >> }

IssueIdents == { << <<"a">>, <<"c">>, <<"2">> >> }

\* issue.Key; the empty key is rejected by SetIssue
JiraKeys == { <<"K", "-", "1">>, <<"K", "-", "2">> }

Bodies == {"P1", "P2"}

\* A payload: the domain object handed to Set.  A Jira issue carries its own
\* key; the GitHub payloads carry no cache identity.
NilData == [key |-> <<>>, body |-> "nil"]
GitHubData == [key : {<<>>}, body : Bodies]
\* The issues handed to the Jira-domain SetIssue: two versions of K-1, one of
\* K-2, an issue without a key, and the nil pointer.
JiraData ==
    { [key |-> <<"K", "-", "1">>, body |-> "P1"],
      [key |-> <<"K", "-", "1">>, body |-> "P2"],
      [key |-> <<"K", "-", "2">>, body |-> "P1"],
      [key |-> <<>>, body |-> "P1"],
      NilData }

Garbage == [json |-> "malformed"]
NoDoc == [json |-> "absent"]

EmptyMap == [p \in {} |-> NoDoc]

\* The kinds of the GitHub-domain manager and the kind of the Jira-domain one
GitHubKinds == {"activity", "pr", "issue"}
Scopes == {{"activity"}, {"pr"}, {"issue"}, {"jira"}}
InGitHub == kinds \subseteq GitHubKinds
InJira == kinds = {"jira"}

(***************************************************************************)
(* The operation record: what was called, with what, and what came back.   *)
(* data is the payload passed to a Set or returned by a Get; ok is "no     *)
(* error" for the operations that return an error and "found" for a Get;   *)
(* returned is FALSE while the call has not come back to its caller;       *)
(* ticked says that the clock has advanced since the call.  same says that *)
(* the operation called just before was a successful Set of the same kind  *)
(* and identity; over, of a Set, that it followed such a Set of another    *)
(* payload, and of a Get, that it followed such a Set.  listed is FALSE    *)
(* when a Clear could not list a directory; wrote says that a Set wrote    *)
(* its blob file.                                                          *)
(***************************************************************************)
NoStats == [activity |-> 0, prs |-> 0, issues |-> 0, total |-> 0]

NoOp ==
    [op |-> "none", kind |-> "none", ident |-> <<>>, data |-> NilData,
     ok |-> TRUE, returned |-> TRUE, ticked |-> FALSE, removed |-> 0,
     stats |-> NoStats, same |-> FALSE, over |-> FALSE, listed |-> TRUE,
     wrote |-> FALSE]

SetOps == {"Set", "SetPR", "SetIssue", "JiraSetIssue"}
GetOps == {"Get", "GetPR", "GetIssue", "JiraGetIssue"}
CleanOps == {"CleanExpired", "JiraCleanExpired"}

Call(op, kind, ident, data) ==
    LET same == /\ last.op \in SetOps
                /\ last.ok
                /\ last.kind = kind
                /\ last.ident = ident
    IN  [NoOp EXCEPT !.op = op, !.kind = kind, !.ident = ident, !.data = data,
                     !.same = same,
                     !.over = IF op \in SetOps THEN same /\ last.data # data
                              ELSE IF op \in GetOps THEN same /\ last.over
                              ELSE FALSE]

(***************************************************************************)
(* Files and JSON.                                                         *)
(***************************************************************************)
\* os.WriteFile: create or replace the file
WriteFile(fs, path, content) ==
    [p \in DOMAIN fs \cup {path} |-> IF p = path THEN content ELSE fs[p]]

\* os.Remove taking the whole subdirectory with the file
RemoveDirectory(fs, path) ==
    [p \in {q \in DOMAIN fs : q.dir # path.dir} |-> fs[p]]

\* os.Remove: delete the file; an absent file is an error the callers ignore
Remove(fs, path) == [p \in DOMAIN fs \ {path} |-> fs[p]]

\* json.Marshal of a cache entry: the blob document
Marshal(data, timestamp, ident) ==
    [json |-> "object", data |-> data, timestamp |-> timestamp, ident |-> ident]

\* json.Unmarshal returns an error on a malformed or truncated document
UnmarshalFails(content) == content.json # "object"

Join3(a, sep, b, c) == a \o sep \o b \o sep \o c

(***************************************************************************)
(* GitHub-domain manager: internal/github/cache.go                         *)
(***************************************************************************)
\* The first 8 bytes of the SHA-256 digest, in hex.  The digest is not
\* computed: it is kept as a tagged copy of its input, which is injective on
\* the inputs of the model as the digest is on any inputs one meets.
Sha8(key) == <<"sha256:">> \o key

getCacheKey(username, startDate, endDate) ==
    Sha8(Join3(username, US, startDate, endDate)) \o Ext

ActivityPath(username, startDate, endDate) ==
    [dir |-> "activity", name |-> getCacheKey(username, startDate, endDate)]

\* fmt.Sprintf("%s_%s_%s.json", owner, repo, number)
PRFilename(owner, repo, number) == Join3(owner, US, repo, number) \o Ext

PRPath(owner, repo, number) ==
    [dir |-> "prs", name |-> PRFilename(owner, repo, number)]

IssuePath(owner, repo, number) ==
    [dir |-> "issues", name |-> PRFilename(owner, repo, number)]

\* fmt.Sprintf("%s/%s#%s", owner, repo, number)
PRKey(owner, repo, number) == owner \o <<"/">> \o repo \o <<"#">> \o number

\* After taken for "not before": an entry is expired at its expiry time
NotBefore(t, u) == t >= u

\* time.Now().After(entry.Expires)
After(t, u) == t > u

\* updateMetadata with the TTL forgotten: the entry expires as it is created
updateMetadataNoTTL(m, path, entryType, key, ttl, t) ==
    [p \in DOMAIN m \cup {path} |->
        IF p = path
        THEN [created |-> t, expires |-> t, type |-> entryType, key |-> key]
        ELSE m[p]]

\* updateMetadata merging into an entry that exists: its times are kept
updateMetadataMerge(m, path, entryType, key, ttl, t) ==
    [p \in DOMAIN m \cup {path} |->
        IF p = path /\ p \notin DOMAIN m
        THEN [created |-> t, expires |-> t + ttl, type |-> entryType, key |-> key]
        ELSE m[p]]

\* updateMetadata taking the manager's c.ttl for the ttl it is passed
updateMetadataFixedTTL(m, path, entryType, key, ttl, t) ==
    [p \in DOMAIN m \cup {path} |->
        IF p = path
        THEN [created |-> t, expires |-> t + ActivityTTL, type |-> entryType,
              key |-> key]
        ELSE m[p]]

\* m is the entry map, t the time.Now() of the call
updateMetadata(m, path, entryType, key, ttl, t) ==
    [p \in DOMAIN m \cup {path} |->
        IF p = path
        THEN [created |-> t, expires |-> t + ttl, type |-> entryType, key |-> key]
        ELSE m[p]]

\* isExpired failing open: a path the index does not know is taken for fresh
isExpiredUnknownFresh(m, path, t) ==
    IF path \notin DOMAIN m
    THEN FALSE
    ELSE After(t, m[path].expires)

\* m is the entry map, t the time.Now() of the call
isExpired(m, path, t) ==
    IF path \notin DOMAIN m
    THEN TRUE
    ELSE After(t, m[path].expires)

\* saveMetadata marshalling a fresh CacheMetadata in place of c.metadata
saveMetadataFresh(m) == [json |-> "object", entries |-> EmptyMap]

\* json.MarshalIndent of the index, as written to metadata.json
saveMetadata(m) == [json |-> "object", entries |-> m]

\* What the body of a Get comes to on the index m and the files fs at time t:
\* (nil, false) or (entry.Data, true), and whether it removed the blob file.
NotFound(removes) == [found |-> FALSE, data |-> NilData, removes |-> removes]
Found(data) == [found |-> TRUE, data |-> data, removes |-> FALSE]

\* what a Get returns to its caller
Returned(call, out) == [call EXCEPT !.ok = out.found, !.data = out.data]

\* the number of blob files the os.Remove of a Get deleted
Deleted(out, fs, path) == IF out.removes /\ path \in DOMAIN fs THEN 1 ELSE 0

\* what a Set, Clear or CleanExpired returns when it fails: an error
Err(call) == [call EXCEPT !.ok = FALSE]

\* os.WriteFile of the blob returned nil
Wrote(call) == [call EXCEPT !.wrote = TRUE]

\* the outcomes of the two writes of a Set: both succeed, os.WriteFile of the
\* blob fails, or os.WriteFile of metadata.json fails
WriteOutcomes == {"ok", "blob", "meta"}

\* the outcomes of the listing and the write of a Clear: both succeed,
\* os.ReadDir fails on the directories it lists, or os.WriteFile of
\* metadata.json fails
ClearOutcomes == {"ok", "list", "meta"}

GetOutcome(username, startDate, endDate, m, fs, t) ==
    LET relativePath == ActivityPath(username, startDate, endDate)
    IN  IF isExpired(m, relativePath, t)
        THEN NotFound(TRUE)
        ELSE IF relativePath \notin DOMAIN fs
        THEN NotFound(FALSE)
        ELSE IF UnmarshalFails(fs[relativePath])
        THEN NotFound(FALSE)
        ELSE LET entry == fs[relativePath]
             IN  IF t - entry.timestamp > ActivityTTL
                 THEN NotFound(TRUE)
                 ELSE IF entry.ident # <<username, startDate, endDate>>
                 THEN NotFound(FALSE)
                 ELSE Found(entry.data)

Get(username, startDate, endDate) ==
    LET relativePath == ActivityPath(username, startDate, endDate)
        call == Call("Get", "activity", <<username, startDate, endDate>>, NilData)
        out == GetOutcome(username, startDate, endDate, entries, files, now)
    IN  /\ "activity" \in kinds
        /\ ~blocked
        /\ files' = IF out.removes THEN Remove(files, relativePath) ELSE files
        /\ last' = [Returned(call, out)
                       EXCEPT !.removed = Deleted(out, files, relativePath)]
        /\ UNCHANGED <<idle, kinds, now, entries, metaDoc, blocked>>

Set(username, startDate, endDate, data, delay, outcome) ==
    LET relativePath == ActivityPath(username, startDate, endDate)
        ident == <<username, startDate, endDate>>
        call == Call("Set", "activity", ident, data)
        key == Join3(username, US, startDate, endDate)
        index == updateMetadata(entries, relativePath, "activity", key,
                                ActivityTTL, now + delay)
    IN  /\ "activity" \in kinds
        /\ ~blocked
        /\ now + delay \in Times
        /\ IF outcome = "blob"
           THEN /\ last' = Err(call)
                /\ UNCHANGED <<now, entries, metaDoc, files>>
           ELSE /\ files' = WriteFile(files, relativePath, Marshal(data, now, ident))
                /\ now' = now + delay
                /\ entries' = index
                /\ IF outcome = "meta"
                   THEN metaDoc' = metaDoc /\ last' = Err(Wrote(call))
                   ELSE metaDoc' = saveMetadata(index) /\ last' = Wrote(call)
        /\ UNCHANGED <<idle, kinds, blocked>>

GetPROutcome(owner, repo, number, m, fs, t) ==
    LET relativePath == PRPath(owner, repo, number)
    IN  IF isExpired(m, relativePath, t)
        THEN NotFound(TRUE)
        ELSE IF relativePath \notin DOMAIN fs
        THEN NotFound(FALSE)
        ELSE IF UnmarshalFails(fs[relativePath])
        THEN NotFound(FALSE)
        ELSE LET entry == fs[relativePath]
             IN  IF t - entry.timestamp > PRTTL
                 THEN NotFound(TRUE)
                 ELSE Found(entry.data)

GetPR(owner, repo, number) ==
    LET relativePath == PRPath(owner, repo, number)
        call == Call("GetPR", "pr", <<owner, repo, number>>, NilData)
        out == GetPROutcome(owner, repo, number, entries, files, now)
    IN  /\ "pr" \in kinds
        /\ ~blocked
        /\ files' = IF out.removes THEN Remove(files, relativePath) ELSE files
        /\ last' = [Returned(call, out)
                       EXCEPT !.removed = Deleted(out, files, relativePath)]
        /\ UNCHANGED <<idle, kinds, now, entries, metaDoc, blocked>>

SetPR(owner, repo, number, data, delay, outcome) ==
    LET relativePath == PRPath(owner, repo, number)
        ident == <<owner, repo, number>>
        call == Call("SetPR", "pr", ident, data)
        index == updateMetadata(entries, relativePath, "pr",
                                PRKey(owner, repo, number), PRTTL, now + delay)
    IN  /\ "pr" \in kinds
        /\ ~blocked
        /\ now + delay \in Times
        /\ IF outcome = "blob"
           THEN /\ last' = Err(call)
                /\ UNCHANGED <<now, entries, metaDoc, files>>
           ELSE /\ files' = WriteFile(files, relativePath, Marshal(data, now, ident))
                /\ now' = now + delay
                /\ entries' = index
                /\ IF outcome = "meta"
                   THEN metaDoc' = metaDoc /\ last' = Err(Wrote(call))
                   ELSE metaDoc' = saveMetadata(index) /\ last' = Wrote(call)
        /\ UNCHANGED <<idle, kinds, blocked>>

GetIssueOutcome(owner, repo, number, m, fs, t) ==
    LET relativePath == IssuePath(owner, repo, number)
    IN  IF isExpired(m, relativePath, t)
        THEN NotFound(TRUE)
        ELSE IF relativePath \notin DOMAIN fs
        THEN NotFound(FALSE)
        ELSE IF UnmarshalFails(fs[relativePath])
        THEN NotFound(FALSE)
        ELSE LET entry == fs[relativePath]
             IN  IF t - entry.timestamp > PRTTL
                 THEN NotFound(TRUE)
                 ELSE Found(entry.data)

GetIssue(owner, repo, number) ==
    LET relativePath == IssuePath(owner, repo, number)
        call == Call("GetIssue", "issue", <<owner, repo, number>>, NilData)
        out == GetIssueOutcome(owner, repo, number, entries, files, now)
    IN  /\ "issue" \in kinds
        /\ ~blocked
        /\ files' = IF out.removes THEN Remove(files, relativePath) ELSE files
        /\ last' = [Returned(call, out)
                       EXCEPT !.removed = Deleted(out, files, relativePath)]
        /\ UNCHANGED <<idle, kinds, now, entries, metaDoc, blocked>>

SetIssue(owner, repo, number, data, delay, outcome) ==
    LET relativePath == IssuePath(owner, repo, number)
        ident == <<owner, repo, number>>
        call == Call("SetIssue", "issue", ident, data)
        index == updateMetadata(entries, relativePath, "issue",
                                PRKey(owner, repo, number), PRTTL, now + delay)
    IN  /\ "issue" \in kinds
        /\ ~blocked
        /\ now + delay \in Times
        /\ IF outcome = "blob"
           THEN /\ last' = Err(call)
                /\ UNCHANGED <<now, entries, metaDoc, files>>
           ELSE /\ files' = WriteFile(files, relativePath, Marshal(data, now, ident))
                /\ now' = now + delay
                /\ entries' = index
                /\ IF outcome = "meta"
                   THEN metaDoc' = metaDoc /\ last' = Err(Wrote(call))
                   ELSE metaDoc' = saveMetadata(index) /\ last' = Wrote(call)
        /\ UNCHANGED <<idle, kinds, blocked>>

\* sync.RWMutex.Lock returns once no goroutine holds the mutex; the mutex is
\* not reentrant, so it never returns to a caller that holds it itself
LockReturns(state) == state = "unlocked"

\* a sweep that takes every entry for expired
ExpiredPathsAll(m, t) == DOMAIN m

\* now.After(entry.Expires) over the whole index
ExpiredPaths(m, t) == {p \in DOMAIN m : After(t, m[p].expires)}

Restrict(m, keep) == [p \in keep |-> m[p]]

\* a subdirectory that os.ReadDir cannot list is passed over (continue)
Clear(outcome) ==
    LET call == [Call("Clear", "all", <<>>, NilData)
                    EXCEPT !.listed = outcome # "list"]
        subdirs == IF outcome = "list" THEN {} ELSE {"activity", "prs", "issues"}
    IN  /\ InGitHub
        /\ ~blocked
        /\ files' = Restrict(files, {p \in DOMAIN files : p.dir \notin subdirs})
        /\ entries' = EmptyMap
        /\ IF outcome = "meta"
           THEN metaDoc' = metaDoc /\ last' = Err(call)
           ELSE metaDoc' = saveMetadata(EmptyMap) /\ last' = call
        /\ UNCHANGED <<idle, kinds, now, blocked>>

CleanExpired ==
    LET call == Call("CleanExpired", "all", <<>>, NilData)
        held == "locked"
        toDelete == ExpiredPaths(entries, now)
        done == [call EXCEPT !.removed = Cardinality(toDelete)]
    IN  /\ InGitHub
        /\ ~blocked
        /\ files' = Restrict(files, DOMAIN files \ toDelete)
        /\ entries' = Restrict(entries, DOMAIN entries \ toDelete)
        /\ IF toDelete # {}
           THEN IF LockReturns(held)
                THEN /\ metaDoc' = saveMetadata(entries')
                     /\ last' = done
                     /\ blocked' = FALSE
                ELSE /\ metaDoc' = metaDoc
                     /\ last' = [done EXCEPT !.returned = FALSE]
                     /\ blocked' = TRUE
           ELSE /\ metaDoc' = metaDoc
                /\ last' = done
                /\ blocked' = FALSE
        /\ UNCHANGED <<idle, kinds, now>>

\* stats[entry.Type] is incremented only when entry.Type is a key of stats
Counted(m, statKey) == Cardinality({p \in DOMAIN m : m[p].type = statKey})

\* the map GetCacheStats returns for the index m
Stats(m) ==
    [activity |-> Counted(m, "activity"),
     prs |-> Counted(m, "prs"),
     issues |-> Counted(m, "issues"),
     total |-> Cardinality(DOMAIN m)]

GetCacheStats ==
    LET call == Call("GetCacheStats", "all", <<>>, NilData)
    IN  /\ InGitHub
        /\ ~blocked
        /\ last' = [call EXCEPT !.stats = Stats(entries)]
        /\ UNCHANGED <<idle, kinds, now, entries, metaDoc, files, blocked>>

\* json.Unmarshal(data, c.metadata); any error leaves a fresh, empty index
loadMetadata(doc) ==
    IF doc.json = "object" THEN doc.entries ELSE EmptyMap

\* NewCache returning the error of loadMetadata to its caller
NewCachePropagates ==
    /\ InGitHub
    /\ entries' = loadMetadata(metaDoc)
    /\ blocked' = FALSE
    /\ last' = [Call("NewCache", "all", <<>>, NilData)
                    EXCEPT !.ok = metaDoc.json = "object"]
    /\ UNCHANGED <<idle, kinds, now, metaDoc, files>>

\* a new process constructs its manager
NewCache ==
    /\ InGitHub
    /\ entries' = loadMetadata(metaDoc)
    /\ blocked' = FALSE
    /\ last' = Call("NewCache", "all", <<>>, NilData)
    /\ UNCHANGED <<idle, kinds, now, metaDoc, files>>

(***************************************************************************)
(* Jira-domain manager: internal/jira/cache.go                             *)
(***************************************************************************)
getCacheFilename(issueKey) == issueKey \o Ext

JiraPath(issueKey) == [dir |-> ".", name |-> getCacheFilename(issueKey)]

JiraUpdateMetadata(m, filename, issueKey, t) ==
    [p \in DOMAIN m \cup {filename} |->
        IF p = filename
        THEN [created |-> t, expires |-> t + JiraTTL, type |-> "issue",
              key |-> issueKey]
        ELSE m[p]]

JiraIsExpired(m, filename, t) ==
    IF filename \notin DOMAIN m
    THEN TRUE
    ELSE After(t, m[filename].expires)

JiraSaveMetadata(m) == [json |-> "object", entries |-> m]

JiraGetIssueOutcome(issueKey, m, fs, t) ==
    LET filename == JiraPath(issueKey)
    IN  IF JiraIsExpired(m, filename, t)
        THEN NotFound(TRUE)
        ELSE IF filename \notin DOMAIN fs
        THEN NotFound(FALSE)
        ELSE IF UnmarshalFails(fs[filename])
        THEN NotFound(FALSE)
        ELSE LET entry == fs[filename]
             IN  IF t - entry.timestamp > JiraTTL
                 THEN NotFound(TRUE)
                 ELSE Found(entry.data)

JiraGetIssue(issueKey) ==
    LET filename == JiraPath(issueKey)
        call == Call("JiraGetIssue", "jira", issueKey, NilData)
        out == JiraGetIssueOutcome(issueKey, entries, files, now)
    IN  /\ InJira
        /\ ~blocked
        /\ files' = IF out.removes THEN Remove(files, filename) ELSE files
        /\ last' = [Returned(call, out)
                       EXCEPT !.removed = Deleted(out, files, filename)]
        /\ UNCHANGED <<idle, kinds, now, entries, metaDoc, blocked>>

\* issue is NilData for a nil pointer; issue.key is issue.Key
JiraSetIssue(issue, delay, outcome) ==
    LET filename == JiraPath(issue.key)
        call == Call("JiraSetIssue", "jira", issue.key, issue)
        index == JiraUpdateMetadata(entries, filename, issue.key, now + delay)
    IN  /\ InJira
        /\ ~blocked
        /\ now + delay \in Times
        /\ IF issue = NilData \/ issue.key = <<>> \/ outcome = "blob"
           THEN /\ last' = Err(call)
                /\ UNCHANGED <<now, entries, metaDoc, files>>
           ELSE /\ files' = WriteFile(files, filename, Marshal(issue, now, issue.key))
                /\ now' = now + delay
                /\ entries' = index
                /\ IF outcome = "meta"
                   THEN metaDoc' = metaDoc /\ last' = Err(Wrote(call))
                   ELSE metaDoc' = JiraSaveMetadata(index) /\ last' = Wrote(call)
        /\ UNCHANGED <<idle, kinds, blocked>>

\* every file of the flat cache directory is removed, metadata.json included
\* and a cache directory that os.ReadDir cannot list is an error returned
JiraClear(outcome) ==
    LET call == [Call("JiraClear", "all", <<>>, NilData)
                    EXCEPT !.listed = outcome # "list"]
    IN  /\ InJira
        /\ ~blocked
        /\ IF outcome = "list"
           THEN /\ last' = Err(call)
                /\ UNCHANGED <<entries, metaDoc, files>>
           ELSE /\ files' = EmptyMap
                /\ entries' = EmptyMap
                /\ IF outcome = "meta"
                   THEN metaDoc' = NoDoc /\ last' = Err(call)
                   ELSE metaDoc' = JiraSaveMetadata(EmptyMap) /\ last' = call
        /\ UNCHANGED <<idle, kinds, now, blocked>>

JiraCleanExpired ==
    LET call == Call("JiraCleanExpired", "all", <<>>, NilData)
        held == "locked"
        toDelete == ExpiredPaths(entries, now)
        done == [call EXCEPT !.removed = Cardinality(toDelete)]
    IN  /\ InJira
        /\ ~blocked
        /\ files' = Restrict(files, DOMAIN files \ toDelete)
        /\ entries' = Restrict(entries, DOMAIN entries \ toDelete)
        /\ IF toDelete # {}
           THEN IF LockReturns(held)
                THEN /\ metaDoc' = JiraSaveMetadata(entries')
                     /\ last' = done
                     /\ blocked' = FALSE
                ELSE /\ metaDoc' = metaDoc
                     /\ last' = [done EXCEPT !.returned = FALSE]
                     /\ blocked' = TRUE
           ELSE /\ metaDoc' = metaDoc
                /\ last' = done
                /\ blocked' = FALSE
        /\ UNCHANGED <<idle, kinds, now>>

\* the map the Jira GetCacheStats returns: "total" (and the constant "ttl")
JiraStats(m) == [NoStats EXCEPT !.total = Cardinality(DOMAIN m)]

JiraGetCacheStats ==
    LET call == Call("JiraGetCacheStats", "all", <<>>, NilData)
    IN  /\ InJira
        /\ ~blocked
        /\ last' = [call EXCEPT !.stats = JiraStats(entries)]
        /\ UNCHANGED <<idle, kinds, now, entries, metaDoc, files, blocked>>

JiraNewCache ==
    /\ InJira
    /\ entries' = loadMetadata(metaDoc)
    /\ blocked' = FALSE
    /\ last' = Call("JiraNewCache", "all", <<>>, NilData)
    /\ UNCHANGED <<idle, kinds, now, metaDoc, files>>

(***************************************************************************)
(* The environment: the clock, and a blob file damaged on disk.            *)
(***************************************************************************)
Tick ==
    /\ \E t \in Times : t > now
    /\ now' = CHOOSE t \in Times : t > now /\ \A u \in Times : u > now => t <= u
    /\ last' = [last EXCEPT !.ticked = last.op # "none"]
    /\ UNCHANGED <<idle, kinds, entries, metaDoc, files, blocked>>

CorruptBlob(path) ==
    /\ path \in DOMAIN files
    /\ files[path] # Garbage
    /\ files' = [files EXCEPT ![path] = Garbage]
    /\ last' = Call("CorruptBlob", "all", <<>>, NilData)
    /\ UNCHANGED <<idle, kinds, now, entries, metaDoc, blocked>>

\* metadata.json damaged on disk while no manager writes it
CorruptMetadata ==
    /\ metaDoc.json = "object"
    /\ metaDoc' = Garbage
    /\ last' = Call("CorruptMetadata", "all", <<>>, NilData)
    /\ UNCHANGED <<idle, kinds, now, entries, files, blocked>>

\* c.mu held by no goroutine
Unlocked == [writer |-> 0, readers |-> {}]

\* a goroutine that is in no call of the manager
Idle == [pc |-> "idle", op |-> "none", data |-> NilData, expired |-> FALSE,
         alone |-> TRUE, ticked |-> FALSE]

\* no command has been run
NoRun == [command |-> "none"]

Init ==
    /\ kinds \in Scopes
    /\ now = 0
    /\ entries = EmptyMap
    /\ metaDoc = NoDoc
    /\ files = EmptyMap
    /\ blocked = FALSE
    /\ last = NoOp
    /\ mu = Unlocked
    /\ goroutines = [g \in Goroutines |-> Idle]
    /\ cli = NoRun

\* A Set reads the clock twice, for the blob's timestamp and then for the
\* index entry: the clock has advanced in between, or it has not.  A Set whose
\* blob write fails reads it once.
Delays(outcome) == IF outcome = "blob" THEN {0} ELSE {0, 1}

Next ==
    \/ \E id \in ActivityIdents : Get(id[1], id[2], id[3])
    \/ \E id \in ActivityIdents, d \in GitHubData, o \in WriteOutcomes : \E delay \in Delays(o) :
          Set(id[1], id[2], id[3], d, delay, o)
    \/ \E id \in PRIdents : GetPR(id[1], id[2], id[3])
    \/ \E id \in PRIdents, d \in GitHubData, o \in WriteOutcomes : \E delay \in Delays(o) :
          SetPR(id[1], id[2], id[3], d, delay, o)
    \/ \E id \in IssueIdents : GetIssue(id[1], id[2], id[3])
    \/ \E id \in IssueIdents, d \in GitHubData, o \in WriteOutcomes : \E delay \in Delays(o) :
          SetIssue(id[1], id[2], id[3], d, delay, o)
    \/ \E o \in ClearOutcomes : Clear(o)
    \/ CleanExpired
    \/ GetCacheStats
    \/ NewCache
    \/ \E k \in JiraKeys : JiraGetIssue(k)
    \/ \E issue \in JiraData, o \in WriteOutcomes : \E delay \in Delays(o) :
          JiraSetIssue(issue, delay, o)
    \/ \E o \in ClearOutcomes : JiraClear(o)
    \/ JiraCleanExpired
    \/ JiraGetCacheStats
    \/ JiraNewCache
    \/ Tick
    \/ \E p \in DOMAIN files : CorruptBlob(p)
    \/ CorruptMetadata

Spec == Init /\ [][Next]_vars

(***************************************************************************)
(* The GitHub-domain manager called from several goroutines at once.  A    *)
(* call is a sequence of steps: each file operation is a step, and so is   *)
(* each acquisition of c.mu and each critical section up to its release.   *)
(* goroutines[g] says where goroutine g stands (pc), in which call (op),   *)
(* with which payload (data), what isExpired answered it (expired),        *)
(* whether no other Set, Clear or CleanExpired has run beside its call     *)
(* (alone), and whether the clock has advanced since the call began        *)
(* (ticked); the last two are kept for a Set.  The callers use one         *)
(* activity identity.  last is the last Set, Clear or CleanExpired that    *)
(* returned.                                                               *)
(***************************************************************************)
ConcIdent == << <<"a">>, <<"b", "_", "c">>, <<"d">> >>
ConcPath == ActivityPath(ConcIdent[1], ConcIdent[2], ConcIdent[3])

\* Lock taking the mutex while readers hold it
CanLockAmongReaders(m) == m.writer = 0

\* sync.RWMutex: Lock returns when no goroutine holds the mutex
CanLock(m) == m.writer = 0 /\ m.readers = {}

\* sync.RWMutex: RLock returns when no writer holds the mutex
CanRLock(m) == m.writer = 0

Lock(m, g) == [m EXCEPT !.writer = g]
Unlock(m) == [m EXCEPT !.writer = 0]
RLock(m, g) == [m EXCEPT !.readers = @ \cup {g}]
RUnlock(m, g) == [m EXCEPT !.readers = @ \ {g}]

Mutators == {"Set", "Clear", "CleanExpired"}

\* goroutine g enters a call at pc
Begin(g, op, data, pc) ==
    [h \in Goroutines |->
        IF h = g
        THEN [Idle EXCEPT !.pc = pc, !.op = op, !.data = data,
                          !.alone = op = "Set"
                                       => \A k \in Goroutines \ {g} :
                                             goroutines[k].op \notin Mutators]
        ELSE IF op \in Mutators /\ goroutines[h].op = "Set"
        THEN [goroutines[h] EXCEPT !.alone = FALSE]
        ELSE goroutines[h]]

Goto(g, pc) == [goroutines EXCEPT ![g].pc = pc]

\* the call of goroutine g returns
Return(g) == [goroutines EXCEPT ![g] = Idle]

\* what a Set, Clear or CleanExpired of goroutine g leaves in last
Returns(g, ok) ==
    [NoOp EXCEPT !.op = goroutines[g].op, !.kind = "activity",
                 !.ident = ConcIdent, !.data = goroutines[g].data, !.ok = ok,
                 !.same = goroutines[g].alone, !.ticked = goroutines[g].ticked]

\* Get: c.isExpired(relativePath) takes the read lock
Get_RLock(g) ==
    /\ goroutines[g].pc = "idle"
    /\ CanRLock(mu)
    /\ mu' = RLock(mu, g)
    /\ goroutines' = Begin(g, "Get", NilData, "isExpired")
    /\ UNCHANGED <<kinds, now, entries, metaDoc, files, blocked, last, cli>>

\* isExpired reads the index and releases the read lock
isExpired_RUnlock(g) ==
    /\ goroutines[g].pc = "isExpired"
    /\ mu' = RUnlock(mu, g)
    /\ goroutines' = [goroutines EXCEPT
                         ![g].expired = isExpired(entries, ConcPath, now),
                         ![g].pc = "Get"]
    /\ UNCHANGED <<kinds, now, entries, metaDoc, files, blocked, last, cli>>

\* the rest of Get: os.Remove of an expired entry's blob, or os.ReadFile,
\* json.Unmarshal and the checks of the blob
Get_File(g) ==
    LET out == GetOutcome(ConcIdent[1], ConcIdent[2], ConcIdent[3],
                          entries, files, now)
    IN  /\ goroutines[g].pc = "Get"
        /\ files' = IF goroutines[g].expired \/ out.removes
                    THEN Remove(files, ConcPath)
                    ELSE files
        /\ goroutines' = Return(g)
        /\ UNCHANGED <<kinds, now, entries, metaDoc, blocked, last, mu, cli>>

\* Set: json.Marshal and os.WriteFile of the blob
Set_WriteFile(g, data, outcome) ==
    LET started == Begin(g, "Set", data, "updateMetadata")
    IN  /\ goroutines[g].pc = "idle"
        /\ IF outcome = "blob"
           THEN /\ goroutines' = [started EXCEPT ![g] = Idle]
                /\ last' = [NoOp EXCEPT !.op = "Set", !.kind = "activity",
                                        !.ident = ConcIdent, !.data = data,
                                        !.ok = FALSE, !.same = started[g].alone]
                /\ files' = files
           ELSE /\ goroutines' = started
                /\ last' = last
                /\ files' = WriteFile(files, ConcPath, Marshal(data, now, ConcIdent))
        /\ UNCHANGED <<kinds, now, entries, metaDoc, blocked, mu, cli>>

updateMetadata_Lock(g) ==
    /\ goroutines[g].pc = "updateMetadata"
    /\ CanLock(mu)
    /\ mu' = Lock(mu, g)
    /\ goroutines' = Goto(g, "updateMetadata.locked")
    /\ UNCHANGED <<kinds, now, entries, metaDoc, files, blocked, last, cli>>

updateMetadata_Unlock(g) ==
    /\ goroutines[g].pc = "updateMetadata.locked"
    /\ entries' = updateMetadata(entries, ConcPath, "activity",
                                 Join3(ConcIdent[1], US, ConcIdent[2], ConcIdent[3]),
                                 ActivityTTL, now)
    /\ mu' = Unlock(mu)
    /\ goroutines' = Goto(g, "saveMetadata")
    /\ UNCHANGED <<kinds, now, metaDoc, files, blocked, last, cli>>

\* also the saveMetadata that CleanExpired calls while it holds c.mu itself
saveMetadata_Lock(g) ==
    /\ goroutines[g].pc = "saveMetadata"
    /\ CanLock(mu)
    /\ mu' = Lock(mu, g)
    /\ goroutines' = Goto(g, "saveMetadata.locked")
    /\ UNCHANGED <<kinds, now, entries, metaDoc, files, blocked, last, cli>>

\* json.MarshalIndent and os.WriteFile under the lock; the call returns
saveMetadata_Unlock(g, outcome) ==
    /\ goroutines[g].pc = "saveMetadata.locked"
    /\ metaDoc' = IF outcome = "meta" THEN metaDoc ELSE saveMetadata(entries)
    /\ mu' = Unlock(mu)
    /\ last' = [Returns(g, outcome # "meta") EXCEPT !.wrote = goroutines[g].op = "Set"]
    /\ goroutines' = Return(g)
    /\ UNCHANGED <<kinds, now, entries, files, blocked, cli>>

\* Clear: os.ReadDir and os.Remove over the subdirectories
Clear_Remove(g, outcome) ==
    /\ goroutines[g].pc = "idle"
    /\ files' = IF outcome = "list" THEN files ELSE EmptyMap
    /\ goroutines' = Begin(g, "Clear", NilData, "Clear")
    /\ UNCHANGED <<kinds, now, entries, metaDoc, blocked, last, mu, cli>>

Clear_Lock(g) ==
    /\ goroutines[g].pc = "Clear"
    /\ CanLock(mu)
    /\ mu' = Lock(mu, g)
    /\ goroutines' = Goto(g, "Clear.locked")
    /\ UNCHANGED <<kinds, now, entries, metaDoc, files, blocked, last, cli>>

Clear_Unlock(g) ==
    /\ goroutines[g].pc = "Clear.locked"
    /\ entries' = EmptyMap
    /\ mu' = Unlock(mu)
    /\ goroutines' = Goto(g, "saveMetadata")
    /\ UNCHANGED <<kinds, now, metaDoc, files, blocked, last, cli>>

CleanExpired_Lock(g) ==
    /\ goroutines[g].pc = "idle"
    /\ CanLock(mu)
    /\ mu' = Lock(mu, g)
    /\ goroutines' = Begin(g, "CleanExpired", NilData, "CleanExpired.locked")
    /\ UNCHANGED <<kinds, now, entries, metaDoc, files, blocked, last, cli>>

\* the sweep under the lock; with entries deleted it goes on to saveMetadata
\* with the lock still held (defer c.mu.Unlock()), else it returns
CleanExpired_Sweep(g) ==
    LET toDelete == ExpiredPaths(entries, now)
    IN  /\ goroutines[g].pc = "CleanExpired.locked"
        /\ files' = Restrict(files, DOMAIN files \ toDelete)
        /\ entries' = Restrict(entries, DOMAIN entries \ toDelete)
        /\ IF toDelete # {}
           THEN /\ goroutines' = Goto(g, "saveMetadata")
                /\ UNCHANGED <<mu, last>>
           ELSE /\ goroutines' = Return(g)
                /\ mu' = Unlock(mu)
                /\ last' = Returns(g, TRUE)
        /\ UNCHANGED <<kinds, now, metaDoc, blocked, cli>>

GetCacheStats_RLock(g) ==
    /\ goroutines[g].pc = "idle"
    /\ CanRLock(mu)
    /\ mu' = RLock(mu, g)
    /\ goroutines' = Begin(g, "GetCacheStats", NilData, "GetCacheStats")
    /\ UNCHANGED <<kinds, now, entries, metaDoc, files, blocked, last, cli>>

GetCacheStats_RUnlock(g) ==
    /\ goroutines[g].pc = "GetCacheStats"
    /\ mu' = RUnlock(mu, g)
    /\ goroutines' = Return(g)
    /\ UNCHANGED <<kinds, now, entries, metaDoc, files, blocked, last, cli>>

\* the hours at which the goroutines run: the entries written in the first
\* are expired in the second
ConcTimes == {0, PRTTL}

\* the clock advances under the calls in progress
ConcTick ==
    /\ \E t \in ConcTimes : t > now
    /\ now' = CHOOSE t \in ConcTimes : t > now
    /\ last' = [last EXCEPT !.ticked = last.op = "Set"]
    /\ goroutines' = [g \in Goroutines |->
                         IF goroutines[g].op = "Set"
                         THEN [goroutines[g] EXCEPT !.ticked = TRUE]
                         ELSE goroutines[g]]
    /\ UNCHANGED <<kinds, entries, metaDoc, files, blocked, mu, cli>>

ConcInit ==
    /\ kinds = {"activity"}
    /\ now = 0
    /\ entries = EmptyMap
    /\ metaDoc = NoDoc
    /\ files = EmptyMap
    /\ blocked = FALSE
    /\ last = NoOp
    /\ mu = Unlocked
    /\ goroutines = [g \in Goroutines |-> Idle]
    /\ cli = NoRun

ConcNext ==
    \/ \E g \in Goroutines : Get_RLock(g)
    \/ \E g \in Goroutines : isExpired_RUnlock(g)
    \/ \E g \in Goroutines : Get_File(g)
    \/ \E g \in Goroutines, d \in GitHubData, o \in {"ok", "blob"} : Set_WriteFile(g, d, o)
    \/ \E g \in Goroutines : updateMetadata_Lock(g)
    \/ \E g \in Goroutines : updateMetadata_Unlock(g)
    \/ \E g \in Goroutines : saveMetadata_Lock(g)
    \/ \E g \in Goroutines, o \in {"ok", "meta"} : saveMetadata_Unlock(g, o)
    \/ \E g \in Goroutines, o \in {"ok", "list"} : Clear_Remove(g, o)
    \/ \E g \in Goroutines : Clear_Lock(g)
    \/ \E g \in Goroutines : Clear_Unlock(g)
    \/ \E g \in Goroutines : CleanExpired_Lock(g)
    \/ \E g \in Goroutines : CleanExpired_Sweep(g)
    \/ \E g \in Goroutines : GetCacheStats_RLock(g)
    \/ \E g \in Goroutines : GetCacheStats_RUnlock(g)
    \/ ConcTick

ConcSpec == ConcInit /\ [][ConcNext]_vars

(***************************************************************************)
(* The cache command: cmd/cache.go.  A run of "perfdive cache stats" or    *)
(* "perfdive cache clear" is one process: it constructs the GitHub-domain  *)
(* manager and then the Jira-domain manager from what is on disk, and      *)
(* prints one section for each.  cli holds the environment of the run, the *)
(* two cache directories on disk, what was printed, and how the process    *)
(* ended.                                                                  *)
(***************************************************************************)
\* Why a manager cannot be constructed: os.UserHomeDir fails; os.MkdirAll of
\* ~/.perfdive/cache fails; os.MkdirAll of a GitHub subdirectory fails;
\* os.MkdirAll of ~/.perfdive/cache/jira fails.
Environments == {"ok", "nohome", "nocachedir", "nosubdir", "nojiradir"}

UserHomeDirFails(env) == env = "nohome"

\* the error NewCache of the GitHub domain returns, if any
GitHubNewCacheFails(env) == env \in {"nohome", "nocachedir", "nosubdir"}

\* the error NewCache of the Jira domain returns, if any
JiraNewCacheFails(env) == env \in {"nohome", "nocachedir", "nojiradir"}

\* the cache directories a run may find
OneIssue == << <<"a">>, <<"c">>, <<"2">> >>
GitHubDisks ==
    LET path == IssuePath(OneIssue[1], OneIssue[2], OneIssue[3])
        index == updateMetadata(EmptyMap, path, "issue",
                                PRKey(OneIssue[1], OneIssue[2], OneIssue[3]), PRTTL, 0)
        blob == WriteFile(EmptyMap, path, Marshal([key |-> <<>>, body |-> "P1"], 0, OneIssue))
    IN  { [doc |-> NoDoc, files |-> EmptyMap],
          [doc |-> Garbage, files |-> blob],
          [doc |-> saveMetadata(index), files |-> blob] }

JiraDisks ==
    LET key == <<"K", "-", "1">>
        index == JiraUpdateMetadata(EmptyMap, JiraPath(key), key, 0)
        blob == WriteFile(EmptyMap, JiraPath(key),
                          Marshal([key |-> key, body |-> "P1"], 0, key))
    IN  { [doc |-> NoDoc, files |-> EmptyMap],
          [doc |-> Garbage, files |-> blob],
          [doc |-> JiraSaveMetadata(index), files |-> blob] }

\* what a section of the output says
NotTried == [line |-> "none", stats |-> NoStats]
Failed == [line |-> "error", stats |-> NoStats]
Done == [line |-> "done", stats |-> NoStats]
Totals(stats) == [line |-> "stats", stats |-> stats]

\* the user types a command
Invoke(command, env, github, jira) ==
    /\ cli = NoRun
    /\ cli' = [command |-> command, env |-> env, github |-> github, jira |-> jira,
               pc |-> "running", exit |-> 0,
               out |-> [github |-> NotTried, jira |-> NotTried]]
    /\ UNCHANGED <<kinds, now, entries, metaDoc, files, blocked, last, mu, goroutines>>

\* os.Exit(1) before any section is printed
Exit1(run) == [run EXCEPT !.pc = "exited", !.exit = 1]

runCacheStats ==
    LET ghOut == IF GitHubNewCacheFails(cli.env)
                 THEN Failed
                 ELSE Totals(Stats(loadMetadata(cli.github.doc)))
        jiraOut == IF JiraNewCacheFails(cli.env)
                   THEN Failed
                   ELSE Totals(JiraStats(loadMetadata(cli.jira.doc)))
    IN  /\ cli.command = "stats"
        /\ cli.pc = "running"
        /\ cli' = IF UserHomeDirFails(cli.env)
                  THEN Exit1(cli)
                  ELSE [cli EXCEPT !.pc = "returned",
                                   !.out = [github |-> ghOut, jira |-> jiraOut]]
        /\ UNCHANGED <<kinds, now, entries, metaDoc, files, blocked, last, mu, goroutines>>

\* gh and jr are the outcomes of the two Clear calls
runCacheClear(gh, jr) ==
    LET ghFails == GitHubNewCacheFails(cli.env)
        jiraFails == JiraNewCacheFails(cli.env)
        ghDisk == IF ghFails THEN cli.github
                  ELSE [doc |-> IF gh = "meta" THEN cli.github.doc
                                ELSE saveMetadata(EmptyMap),
                        files |-> IF gh = "list" THEN cli.github.files ELSE EmptyMap]
        ghOut == IF ghFails \/ gh = "meta" THEN Failed ELSE Done
        jiraDisk == IF jiraFails \/ jr = "list" THEN cli.jira
                    ELSE [doc |-> IF jr = "meta" THEN NoDoc
                                  ELSE JiraSaveMetadata(EmptyMap),
                          files |-> EmptyMap]
        jiraOut == IF jiraFails \/ jr # "ok" THEN Failed ELSE Done
    IN  /\ cli.command = "clear"
        /\ cli.pc = "running"
        /\ cli' = [cli EXCEPT !.pc = "returned",
                              !.github = ghDisk, !.jira = jiraDisk,
                              !.out = [github |-> ghOut, jira |-> jiraOut]]
        /\ UNCHANGED <<kinds, now, entries, metaDoc, files, blocked, last, mu, goroutines>>

CmdInit ==
    /\ kinds = GitHubKinds
    /\ now = 0
    /\ entries = EmptyMap
    /\ metaDoc = NoDoc
    /\ files = EmptyMap
    /\ blocked = FALSE
    /\ last = NoOp
    /\ mu = Unlocked
    /\ goroutines = [g \in Goroutines |-> Idle]
    /\ cli = NoRun

CmdNext ==
    \/ \E command \in {"stats", "clear"}, env \in Environments,
          github \in GitHubDisks, jira \in JiraDisks :
          Invoke(command, env, github, jira)
    \/ runCacheStats
    \/ \E gh \in ClearOutcomes, jr \in ClearOutcomes : runCacheClear(gh, jr)

CmdSpec == CmdInit /\ [][CmdNext]_vars

(***************************************************************************)
(* Vocabulary of the properties.                                           *)
(***************************************************************************)
TTLOf(kind) ==
    IF kind = "activity" THEN ActivityTTL
    ELSE IF kind = "jira" THEN JiraTTL
    ELSE PRTTL

PathOf(kind, ident) ==
    IF kind = "activity" THEN ActivityPath(ident[1], ident[2], ident[3])
    ELSE IF kind = "pr" THEN PRPath(ident[1], ident[2], ident[3])
    ELSE IF kind = "issue" THEN IssuePath(ident[1], ident[2], ident[3])
    ELSE JiraPath(ident)

\* the step is a call of one of the four Gets (the clock stands still in it)
IsGetStep == last'.op \in GetOps /\ now' = now

\* the path the Get of this step asks for
AskedPath == PathOf(last'.kind, last'.ident)

Intact ==
    /\ AskedPath \in DOMAIN entries
    /\ AskedPath \in DOMAIN files
    /\ ~UnmarshalFails(files[AskedPath])
    /\ files[AskedPath].ident = last'.ident

C2_FoundIffBeforeExpiry ==
    [][ (IsGetStep /\ Intact)
        => (last'.ok <=> now < entries[AskedPath].expires) ]_vars

(***************************************************************************)
(* C2, amended. No Get finds an entry that the index does not hold or      *)
(* whose expiry time is past (now > expires); and for an entry that was    *)
(* written and not cleared, with its blob as written, Get returns          *)
(* found = true if and only if now <= expires and the blob's own timestamp *)
(* is at most the kind's TTL old.                                          *)
(***************************************************************************)
C2_TTLRespected ==
    [][ IsGetStep
        => /\ last'.ok => /\ AskedPath \in DOMAIN entries
                          /\ now <= entries[AskedPath].expires
           /\ Intact => ( last'.ok <=>
                            /\ now <= entries[AskedPath].expires
                            /\ now - files[AskedPath].timestamp <= TTLOf(last'.kind) ) ]_vars

\* a Get has found an entry at the very hour it expires
C2_Witness ==
    /\ last.op \in GetOps
    /\ last.ok
    /\ ~last.ticked
    /\ PathOf(last.kind, last.ident) \in DOMAIN entries
    /\ now = entries[PathOf(last.kind, last.ident)].expires

(***************************************************************************)
(* C3. A Get for an entry whose TTL has elapsed removes the entry's blob   *)
(* file and its Metadata Index entry, so that Stats counts it no more.     *)
(***************************************************************************)
StatsTotal(m) == IF InJira THEN JiraStats(m).total ELSE Stats(m).total

C3_ExpiredPurgedOnGet ==
    [][ ( /\ IsGetStep
          /\ AskedPath \in DOMAIN entries
          /\ now > entries[AskedPath].expires )
        => /\ AskedPath \notin DOMAIN files'
           /\ AskedPath \notin DOMAIN entries'
           /\ StatsTotal(entries') = StatsTotal(entries) - 1 ]_vars

(***************************************************************************)
(* C4. Every CleanExpired call returns to its caller, whatever the number  *)
(* of expired entries, with the index persisted.                           *)
(***************************************************************************)
C4_CleanExpiredReturns ==
    last.op \in CleanOps
        => /\ last.returned
           /\ ~blocked
           /\ last.removed > 0 => metaDoc = saveMetadata(entries)

(***************************************************************************)
(* C5. A Set for identity A leaves the answer of Get for every other       *)
(* identity B of the same kind as it was.                                  *)
(***************************************************************************)
IdentsOf(kind) ==
    IF kind = "activity" THEN ActivityIdents
    ELSE IF kind = "pr" THEN PRIdents
    ELSE IF kind = "issue" THEN IssueIdents
    ELSE JiraKeys

\* (payload, found) of the kind's Get for ident on index m, files fs, at time t
Answer(kind, ident, m, fs, t) ==
    LET out == IF kind = "activity"
               THEN GetOutcome(ident[1], ident[2], ident[3], m, fs, t)
               ELSE IF kind = "pr"
               THEN GetPROutcome(ident[1], ident[2], ident[3], m, fs, t)
               ELSE IF kind = "issue"
               THEN GetIssueOutcome(ident[1], ident[2], ident[3], m, fs, t)
               ELSE JiraGetIssueOutcome(ident, m, fs, t)
    IN  <<out.data, out.found>>

IsSetStep == last'.op \in SetOps /\ ~last'.ticked

C5_SetIsolation ==
    [][ IsSetStep
        => \A B \in IdentsOf(last'.kind) \ {last'.ident} :
              Answer(last'.kind, B, entries', files', now')
                  = Answer(last'.kind, B, entries, files, now') ]_vars

(***************************************************************************)
(* C6. Whenever a Get returns found = true, the identity stored in the     *)
(* blob it read is the identity it was asked for.                          *)
(***************************************************************************)
C6_IdentityChecked ==
    [][ (IsGetStep /\ last'.ok)
        => files[AskedPath].ident = last'.ident ]_vars

(***************************************************************************)
(* C7. A Get that meets a corrupted blob, or a blob that fails the         *)
(* embedded-timestamp TTL check, deletes the blob and its Metadata Index   *)
(* entry before it returns not-found.                                      *)
(***************************************************************************)
C7_CorruptPurged ==
    [][ ( /\ IsGetStep
          /\ AskedPath \in DOMAIN entries
          /\ now <= entries[AskedPath].expires
          /\ AskedPath \in DOMAIN files
          /\ \/ UnmarshalFails(files[AskedPath])
             \/ now - files[AskedPath].timestamp > TTLOf(last'.kind) )
        => /\ ~last'.ok
           /\ AskedPath \notin DOMAIN files'
           /\ AskedPath \notin DOMAIN entries' ]_vars

(***************************************************************************)
(* C8. A Get that meets an absent blob, a blob of garbage bytes, a missing *)
(* index entry or an expired one returns (nil, found = false) to its       *)
(* caller and leaves the manager usable.                                   *)
(***************************************************************************)
C8_GetNeverRaises ==
    [][ ( /\ IsGetStep
          /\ \/ AskedPath \notin DOMAIN files
             \/ files[AskedPath] = Garbage
             \/ AskedPath \notin DOMAIN entries
             \/ now > entries[AskedPath].expires )
        => /\ last'.returned
           /\ ~last'.ok
           /\ last'.data = NilData
           /\ ~blocked'
           /\ entries' = entries ]_vars

\* a Get has answered not-found on a blob of garbage that the index holds fresh
C8_Witness ==
    /\ last.op \in GetOps
    /\ ~last.ok
    /\ last.returned
    /\ PathOf(last.kind, last.ident) \in DOMAIN entries
    /\ now <= entries[PathOf(last.kind, last.ident)].expires
    /\ PathOf(last.kind, last.ident) \in DOMAIN files
    /\ files[PathOf(last.kind, last.ident)] = Garbage

IsCleanStep == last'.op \in CleanOps /\ now' = now

C10_SweepIdempotent ==
    [][ IsCleanStep
        => /\ last'.returned
           /\ last'.removed = Cardinality({p \in DOMAIN entries : entries[p].expires < now})
           /\ DOMAIN entries' = {p \in DOMAIN entries : ~(entries[p].expires < now)}
           /\ ( last.op \in CleanOps /\ last.returned /\ ~last.ticked )
                 => last'.removed = 0 ]_vars

(***************************************************************************)
(* C11. CleanExpired leaves every index entry with now <= expires, and the *)
(* entry's blob file, as they were.                                        *)
(***************************************************************************)
C11_SweepKeepsFresh ==
    [][ IsCleanStep
        => \A p \in DOMAIN entries :
              now <= entries[p].expires
                 => /\ p \in DOMAIN entries'
                    /\ entries'[p] = entries[p]
                    /\ p \in DOMAIN files
                          => (p \in DOMAIN files' /\ files'[p] = files[p]) ]_vars

\* a sweep has removed an expired entry and kept a fresh one with its blob
C11_Witness ==
    /\ last.op \in CleanOps
    /\ ~last.ticked
    /\ last.removed > 0
    /\ \E p \in DOMAIN entries : now <= entries[p].expires /\ p \in DOMAIN files

(***************************************************************************)
(* C12. After a Clear that returned no error, Stats reports a total of 0,  *)
(* the managed directories hold no blob file, and the persisted metadata   *)
(* document holds an empty entry map.                                      *)
(***************************************************************************)
ClearOps == {"Clear", "JiraClear"}

C12_ClearEmpties ==
    [][ (last'.op \in ClearOps /\ last'.ok)
        => /\ StatsTotal(entries') = 0
           /\ files' = EmptyMap
           /\ metaDoc' = saveMetadata(EmptyMap) ]_vars

(***************************************************************************)
(* C13. GetCacheStats reports for activity, prs and issues the number of   *)
(* index entries of that kind, and the three counts sum to the total.      *)
(***************************************************************************)
InDir(m, dir) == Cardinality({p \in DOMAIN m : p.dir = dir})

C13_StatsPerKind ==
    last.op = "GetCacheStats"
        => /\ last.stats.activity = InDir(entries, "activity")
           /\ last.stats.prs = InDir(entries, "prs")
           /\ last.stats.issues = InDir(entries, "issues")
           /\ last.stats.activity + last.stats.prs + last.stats.issues
                 = last.stats.total

(***************************************************************************)
(* C16. A Set for A that returns an error leaves the index entry, the blob *)
(* and the Get answer of every other identity B as they were; and when it  *)
(* is the blob write that failed, the whole index is as it was.            *)
(***************************************************************************)
SameAt(f, g, p) ==
    /\ p \in DOMAIN f <=> p \in DOMAIN g
    /\ p \in DOMAIN f => f[p] = g[p]

C16_FailedSetIsolated ==
    [][ (IsSetStep /\ ~last'.ok)
        => /\ \A B \in IdentsOf(last'.kind) \ {last'.ident} :
                 /\ SameAt(entries, entries', PathOf(last'.kind, B))
                 /\ SameAt(files, files', PathOf(last'.kind, B))
                 /\ Answer(last'.kind, B, entries', files', now')
                       = Answer(last'.kind, B, entries, files, now')
           /\ ~last'.wrote => entries' = entries ]_vars

(***************************************************************************)
(* C17. While no call is in progress and no I/O error has occurred, the    *)
(* persisted metadata document is the in-memory index: it is so at         *)
(* construction, every Set and Clear that returns no error leaves it so,   *)
(* and every other call that returns without an I/O error keeps it so.     *)
(***************************************************************************)
Flushed == loadMetadata(metaDoc) = entries

IOErrorStep == last'.op \in SetOps \cup ClearOps /\ ~last'.ok

NewOps == {"NewCache", "JiraNewCache"}

C18_NewCacheStartsFresh ==
    [][ (last'.op \in NewOps /\ metaDoc.json # "object")
        => /\ last'.ok
           /\ last'.returned
           /\ entries' = EmptyMap ]_vars

\* a manager was constructed on an unparseable document, beside blob files
C18_Witness ==
    /\ last.op \in NewOps
    /\ last.ok
    /\ metaDoc = Garbage
    /\ entries = EmptyMap
    /\ files # EmptyMap

(***************************************************************************)
(* C19. A Clear that cannot list a directory it has to clear returns an    *)
(* error, in the GitHub-domain and in the Jira-domain manager.             *)
(***************************************************************************)
C19_ClearReportsUnlistable ==
    [][ (last'.op \in ClearOps /\ ~last'.listed) => ~last'.ok ]_vars

(***************************************************************************)
(* C20. In cache stats and cache clear, when the manager of one domain     *)
(* cannot be constructed, the command prints an error for that domain,     *)
(* still attempts the other domain and reports its result, and the process *)
(* does not end with a fatal exit, whatever made the construction fail.    *)
(***************************************************************************)
Ended == cli.command # "none" /\ cli.pc # "running"

C20_PartialResults ==
    Ended
      => /\ ( GitHubNewCacheFails(cli.env) \/ JiraNewCacheFails(cli.env) )
               => cli.exit = 0
         /\ GitHubNewCacheFails(cli.env)
               => /\ cli.out.github = Failed
                  /\ cli.out.jira # NotTried
                  /\ ~JiraNewCacheFails(cli.env) /\ cli.command = "stats"
                        => cli.out.jira.line = "stats"
         /\ JiraNewCacheFails(cli.env)
               => /\ cli.out.jira = Failed
                  /\ cli.out.github # NotTried
                  /\ ~GitHubNewCacheFails(cli.env) /\ cli.command = "stats"
                        => cli.out.github.line = "stats"

(***************************************************************************)
(* C14. When a Set(I, P) has returned no error with only Gets running      *)
(* beside it, every call has returned, and the clock has not advanced      *)
(* since the Set began, the blob of I is on disk and Get(I) returns        *)
(* (P, true).                                                              *)
(***************************************************************************)
Quiet == \A g \in Goroutines : goroutines[g].pc = "idle"

C14_ConcurrentSetGet ==
    ( /\ Quiet
      /\ last.op = "Set"
      /\ last.ok
      /\ last.same
      /\ ~last.ticked )
        => /\ ConcPath \in DOMAIN files
           /\ Answer("activity", ConcIdent, entries, files, now) = <<last.data, TRUE>>

(***************************************************************************)
(* C15. While a goroutine writes the index map under c.mu, no other        *)
(* goroutine reads or writes the map; readers overlap with readers only.   *)
(***************************************************************************)
\* goroutine g is in code that writes c.metadata.Entries
WritesIndex(g) ==
    goroutines[g].pc \in {"updateMetadata.locked", "Clear.locked", "CleanExpired.locked"}

\* goroutine g is in code that reads c.metadata.Entries
ReadsIndex(g) ==
    goroutines[g].pc \in {"isExpired", "GetCacheStats", "saveMetadata.locked"}

C15_IndexUnderLock ==
    \A g \in Goroutines :
        /\ WritesIndex(g)
              => \A h \in Goroutines \ {g} : ~WritesIndex(h) /\ ~ReadsIndex(h)
        /\ goroutines[g].pc = "saveMetadata.locked"
              => \A h \in Goroutines \ {g} : ~ReadsIndex(h)

\* a goroutine writes the index while another waits for the lock to read it
C15_Witness ==
    \E g, h \in Goroutines :
        /\ g # h
        /\ goroutines[g].pc = "updateMetadata.locked"
        /\ goroutines[h].pc = "saveMetadata"
        /\ mu.writer = g

(***************************************************************************)
(* C21. Every index entry has expires = created + ttl of its kind: one     *)
(* hour for an activity entry, 24 hours for a pull request, a GitHub issue *)
(* and a Jira issue.                                                       *)
(***************************************************************************)
TTLOfEntry(path) ==
    IF path.dir = "activity" THEN ActivityTTL
    ELSE IF path.dir = "." THEN JiraTTL
    ELSE PRTTL

C21_ExpiresIsCreatedPlusTTL ==
    \A p \in DOMAIN entries :
        entries[p].expires = entries[p].created + TTLOfEntry(p)

\* an entry of a 24-hour kind was created after the first hour
C21_Witness ==
    \E p \in DOMAIN entries :
        /\ p.dir # "activity"
        /\ entries[p].created > 0
        /\ entries[p].expires = entries[p].created + PRTTL

(***************************************************************************)
(* C22. A Get that returns found = true leaves the index, the metadata     *)
(* document and every blob file as they were; and no Get changes the index *)
(* entry or the blob of an identity other than the one it is asked for.    *)
(***************************************************************************)
C22_ReadFrame ==
    [][ IsGetStep
        => /\ last'.ok => /\ entries' = entries
                          /\ metaDoc' = metaDoc
                          /\ files' = files
           /\ \A B \in IdentsOf(last'.kind) \ {last'.ident} :
                 /\ SameAt(entries, entries', PathOf(last'.kind, B))
                 /\ SameAt(files, files', PathOf(last'.kind, B)) ]_vars

(***************************************************************************)
(* C23. A Get for a path that the index does not hold returns not-found,   *)
(* and the blob file at that path, if any, is deleted by the call.         *)
(***************************************************************************)
C23_UnknownIsExpired ==
    [][ (IsGetStep /\ AskedPath \notin DOMAIN entries)
        => /\ ~last'.ok
           /\ last'.data = NilData
           /\ AskedPath \notin DOMAIN files' ]_vars

\* a Get has deleted a blob file at a path the index does not hold
C23_Witness ==
    /\ last.op \in GetOps
    /\ ~last.ok
    /\ last.removed = 1
    /\ PathOf(last.kind, last.ident) \notin DOMAIN entries
    /\ PathOf(last.kind, last.ident) \notin DOMAIN files

(***************************************************************************)
(* The GitHub client: makeGitHubRequest and doGitHubRequest.  One call is  *)
(* followed from its entry to its return; the server's answer to each      *)
(* request that is sent is chosen by the environment.                      *)
(***************************************************************************)
\* everything but the call in progress
disk == <<kinds, now, entries, metaDoc, files, blocked, last, mu, goroutines>>

Tokens == {"", "ghp"}

\* the owner segments a caller puts into the URL
Owners == { <<"o">>, <<"%", "4", "1">>, <<"%", "z", "z">> }

HexDigits ==
    {"0", "1", "2", "3", "4", "5", "6", "7", "8", "9",
     "a", "b", "c", "d", "e", "f", "A", "B", "C", "D", "E", "F"}

\* fetchPullRequest: fmt.Sprintf("%s/repos/%s/%s/pulls/%s", ...)
PullURL(owner) ==
    <<"https://api.github.com", "/", "repos", "/">> \o owner
        \o <<"/", "r", "/", "pulls", "/", "1">>

\* http.NewRequest fails when the URL does not parse: a "%" that is not
\* followed by two hexadecimal digits
NewRequestFails(url) ==
    \E i \in 1..Len(url) :
        /\ url[i] = "%"
        /\ \/ i + 2 > Len(url)
           \/ url[i + 1] \notin HexDigits
           \/ url[i + 2] \notin HexDigits

\* what httpClient.Do can come back with: a response, or no response at all
Statuses == {200, 401, 403, 404, 429, 500}
NoResponse == [status |-> 0, body |-> "none"]
Responses ==
    [status : Statuses, body : {"json"}]
        \cup {[status |-> 200, body |-> "garbage"], NoResponse}

\* error values; two errors are the same message iff the records are equal
NilErr == [msg |-> "nil", code |-> 0]
URLErr == [msg |-> "parse", code |-> 0]
TransportErr == [msg |-> "Get", code |-> 0]
DecodeErr == [msg |-> "invalid character", code |-> 0]
StatusErr(code) == [msg |-> "GitHub API returned status", code |-> code]

\* isUnauthorizedError answering true for every error
isUnauthorizedErrorAny(err) == err # NilErr

isUnauthorizedError(err) == err # NilErr /\ err = StatusErr(401)

\* the call as makeGitHubRequest is entered
Request(token, url) ==
    [command |-> "makeGitHubRequest", token |-> token, url |-> url,
     pc |-> "makeGitHubRequest", useAuth |-> FALSE,
     response |-> NoResponse, sent |-> <<>>, tries |-> <<>>,
     result |-> "nil", err |-> NilErr]

\* doGitHubRequest returns err to makeGitHubRequest, which retries without
\* the token or returns
Fails(run, err) ==
    IF run.useAuth /\ isUnauthorizedError(err)
    THEN [run EXCEPT !.tries = Append(@, err), !.useAuth = FALSE,
                     !.pc = "NewRequest"]
    ELSE [run EXCEPT !.tries = Append(@, err), !.err = err,
                     !.result = "nil", !.pc = "returned"]

Succeeds(run) ==
    [run EXCEPT !.tries = Append(@, NilErr), !.err = NilErr,
                !.result = "target", !.pc = "returned"]

makeGitHubRequest ==
    /\ cli.command = "makeGitHubRequest"
    /\ cli.pc = "makeGitHubRequest"
    /\ cli' = [cli EXCEPT !.useAuth = (cli.token # ""), !.pc = "NewRequest"]
    /\ UNCHANGED disk

doGitHubRequest_NewRequest ==
    /\ cli.command = "makeGitHubRequest"
    /\ cli.pc = "NewRequest"
    /\ cli' = IF NewRequestFails(cli.url) THEN Fails(cli, URLErr)
              ELSE [cli EXCEPT !.pc = "Do"]
    /\ UNCHANGED disk

\* the request goes out, with the Authorization header or without it
doGitHubRequest_Do(response) ==
    /\ cli.command = "makeGitHubRequest"
    /\ cli.pc = "Do"
    /\ LET out == [cli EXCEPT
                      !.sent = Append(@, cli.useAuth /\ cli.token # "")]
       IN  cli' = IF response = NoResponse THEN Fails(out, TransportErr)
                  ELSE [out EXCEPT !.response = response, !.pc = "StatusCode"]
    /\ UNCHANGED disk

doGitHubRequest_StatusCode ==
    /\ cli.command = "makeGitHubRequest"
    /\ cli.pc = "StatusCode"
    /\ cli' = IF cli.response.status # 200
              THEN Fails(cli, StatusErr(cli.response.status))
              ELSE IF cli.response.body # "json" THEN Fails(cli, DecodeErr)
              ELSE Succeeds(cli)
    /\ UNCHANGED disk

HttpInit ==
    /\ kinds = GitHubKinds
    /\ now = 0
    /\ entries = EmptyMap
    /\ metaDoc = NoDoc
    /\ files = EmptyMap
    /\ blocked = FALSE
    /\ last = NoOp
    /\ mu = Unlocked
    /\ goroutines = [g \in Goroutines |-> Idle]
    /\ \E token \in Tokens, owner \in Owners :
          cli = Request(token, PullURL(owner))

HttpNext ==
    \/ makeGitHubRequest
    \/ doGitHubRequest_NewRequest
    \/ \E response \in Responses : doGitHubRequest_Do(response)
    \/ doGitHubRequest_StatusCode

HttpSpec == HttpInit /\ [][HttpNext]_vars

(***************************************************************************)
(* C25. With a token the first request is sent with authentication, and a  *)
(* second request, without authentication, is sent iff the first failed    *)
(* with status 401, its outcome being the one returned; any other failure  *)
(* is returned without a retry; without a token exactly one request,       *)
(* without authentication, is sent; no call sends more than two requests.  *)
(***************************************************************************)
AuthRetry ==
    /\ Len(cli.sent) <= 2
    /\ cli.token = "" => cli.sent = <<FALSE>>
    /\ cli.token # ""
       => /\ Len(cli.sent) >= 1
          /\ cli.sent[1]
          /\ Len(cli.sent) = 2 <=> cli.tries[1] = StatusErr(401)
          /\ Len(cli.sent) = 2
             => /\ ~cli.sent[2]
                /\ Len(cli.tries) = 2
                /\ cli.err = cli.tries[2]
                /\ cli.result = "target" <=> cli.tries[2] = NilErr
          /\ cli.tries[1] # StatusErr(401)
             => /\ Len(cli.tries) = 1
                /\ cli.err = cli.tries[1]
                /\ cli.result = "target" <=> cli.tries[1] = NilErr

FirstYear == 2023
NumYears == 3
Years == FirstYear..(FirstYear + NumYears - 1)

IsLeap(y) == (y % 4 = 0 /\ y % 100 # 0) \/ y % 400 = 0

DaysIn(y, m) ==
    IF m = 2 THEN (IF IsLeap(y) THEN 29 ELSE 28)
    ELSE IF m \in {4, 6, 9, 11} THEN 30
    ELSE 31

DaysBeforeYear(y) ==
    365 * (y - 1) + ((y - 1) \div 4) - ((y - 1) \div 100) + ((y - 1) \div 400)

RECURSIVE DaysBeforeMonth(_, _)
DaysBeforeMonth(y, m) ==
    IF m = 1 THEN 0 ELSE DaysBeforeMonth(y, m - 1) + DaysIn(y, m - 1)

\* time.Date(y, m, d, 0, 0, 0, 0, loc): a month outside 1..12 moves the
\* year, a day outside the month moves the month
Date(y, m, d) ==
    LET year == y + ((m - 1) \div 12)
        month == ((m - 1) % 12) + 1
    IN  DaysBeforeYear(year) + DaysBeforeMonth(year, month) + d - 1

Year(t) ==
    CHOOSE y \in (FirstYear - 2)..(FirstYear + NumYears + 1) :
        DaysBeforeYear(y) <= t /\ t < DaysBeforeYear(y + 1)

Month(t) ==
    LET y == Year(t)
    IN  CHOOSE m \in 1..12 : Date(y, m, 1) <= t /\ t < Date(y, m + 1, 1)

Day(t) == t - Date(Year(t), Month(t), 1) + 1

\* Sunday is 0; January 1 of year 1 is a Monday
Weekday(t) == (t + 1) % 7

\* AddDate taking the days only
AddDateDaysOnly(t, years, months, days) == t + days

AddDate(t, years, months, days) ==
    LET y == Year(t)
        m == Month(t)
    IN  Date(y + years, m + months, t - Date(y, m, 1) + 1 + days)

ZeroTime == 0
IsZero(t) == t = ZeroTime

Named(name) == [name |-> name, q |-> 0, year |-> 0]
QuarterKey(q, year) == [name |-> "q", q |-> q, year |-> year]
NamedPeriod(start, end) == [StartDate |-> start, EndDate |-> end]

Supported ==
    {"this-week", "last-week", "this-month", "last-month",
     "this-quarter", "last-quarter", "this-year", "last-year"}

GetNamedPeriods(today) ==
    LET weekday == IF Weekday(today) = 0 THEN 7 ELSE Weekday(today)
        thisWeekStart == AddDate(today, 0, 0, 1 - weekday)
        thisMonthStart == Date(Year(today), Month(today), 1)
        lastMonthEnd == AddDate(thisMonthStart, 0, 0, -1)
        quarter == (Month(today) - 1) \div 3
        thisQuarterStart == Date(Year(today), quarter * 3 + 1, 1)
        lastQuarterEnd == AddDate(thisQuarterStart, 0, 0, -1)
        fixed == [n \in {Named(s) : s \in Supported} |->
            CASE n.name = "this-week" ->
                    NamedPeriod(thisWeekStart, AddDate(thisWeekStart, 0, 0, 6))
              [] n.name = "last-week" ->
                    NamedPeriod(AddDate(thisWeekStart, 0, 0, -7),
                                AddDate(thisWeekStart, 0, 0, -1))
              [] n.name = "this-month" ->
                    NamedPeriod(thisMonthStart, AddDate(thisMonthStart, 0, 1, -1))
              [] n.name = "last-month" ->
                    NamedPeriod(Date(Year(lastMonthEnd), Month(lastMonthEnd), 1),
                                lastMonthEnd)
              [] n.name = "this-quarter" ->
                    NamedPeriod(thisQuarterStart,
                                AddDate(thisQuarterStart, 0, 3, -1))
              [] n.name = "last-quarter" ->
                    NamedPeriod(
                        Date(Year(lastQuarterEnd),
                             ((Month(lastQuarterEnd) - 1) \div 3) * 3 + 1, 1),
                        lastQuarterEnd)
              [] n.name = "this-year" ->
                    NamedPeriod(Date(Year(today), 1, 1), Date(Year(today), 12, 31))
              [] n.name = "last-year" ->
                    NamedPeriod(Date(Year(today) - 1, 1, 1),
                                Date(Year(today) - 1, 12, 31))]
        quarters == [k \in {QuarterKey(q, y) :
                              q \in 1..4, y \in {Year(today) - 1, Year(today)}} |->
            NamedPeriod(Date(k.year, (k.q - 1) * 3 + 1, 1),
                        AddDate(Date(k.year, (k.q - 1) * 3 + 1, 1), 0, 3, -1))]
    IN  [k \in DOMAIN fixed \cup DOMAIN quarters |->
            IF k \in DOMAIN fixed THEN fixed[k] ELSE quarters[k]]

\* the names a caller passes, and strings.ToLower(strings.TrimSpace(name))
RawNames ==
    [raw : {"plain"}, key : {Named(s) : s \in Supported}]
        \cup { [raw |-> "padded", key |-> Named(" Last-Week ")],
               [raw |-> "plain", key |-> Named("invalid-period")],
               [raw |-> "plain", key |-> Named("")],
               [raw |-> "plain", key |-> QuarterKey(1, FirstYear)],
               [raw |-> "plain", key |-> QuarterKey(1, FirstYear - 2)] }

ToLowerTrimSpace(name) ==
    IF name.key = Named(" Last-Week ") THEN Named("last-week") ELSE name.key

ParseNamedPeriodResult(name, today) ==
    LET key == ToLowerTrimSpace(name)
        periods == GetNamedPeriods(today)
    IN  IF key \in DOMAIN periods
        THEN [start |-> periods[key].StartDate, end |-> periods[key].EndDate,
              err |-> "nil"]
        ELSE [start |-> ZeroTime, end |-> ZeroTime, err |-> "unknown period"]

ParseNamedPeriod ==
    /\ cli.command = "ParseNamedPeriod"
    /\ cli.pc = "called"
    /\ cli' = [cli EXCEPT !.pc = "returned",
                          !.out = ParseNamedPeriodResult(cli.name, cli.today)]
    /\ UNCHANGED disk

\* the calendar days of the years considered
Today ==
    { Date(y, m, d) : y \in Years, m \in 1..12, d \in 1..31 }
        \cap (Date(FirstYear, 1, 1)..Date(FirstYear + NumYears - 1, 12, 31))

DateInit ==
    /\ kinds = GitHubKinds
    /\ now = 0
    /\ entries = EmptyMap
    /\ metaDoc = NoDoc
    /\ files = EmptyMap
    /\ blocked = FALSE
    /\ last = NoOp
    /\ mu = Unlocked
    /\ goroutines = [g \in Goroutines |-> Idle]
    /\ \E today \in Today, name \in RawNames :
          cli = [command |-> "ParseNamedPeriod", pc |-> "called",
                 today |-> today, name |-> name,
                 out |-> [start |-> ZeroTime, end |-> ZeroTime, err |-> "nil"]]

DateNext == ParseNamedPeriod

DateSpec == DateInit /\ [][DateNext]_vars

(***************************************************************************)
(* C26. For each of the eight supported names and every current date,      *)
(* ParseNamedPeriod returns no error, a start and an end that are not the  *)
(* zero time, and a start that is not after the end; for a name that is    *)
(* not a known period it returns an error.                                 *)
(***************************************************************************)
KnownPeriod(key, today) ==
    \/ key.name \in Supported
    \/ /\ key.name = "q"
       /\ key.q \in 1..4
       /\ key.year \in {Year(today) - 1, Year(today)}

C26_NamedPeriods ==
    (cli.command = "ParseNamedPeriod" /\ cli.pc = "returned")
    => /\ cli.name.key.name \in Supported
          => /\ cli.out.err = "nil"
             /\ ~IsZero(cli.out.start)
             /\ ~IsZero(cli.out.end)
             /\ cli.out.start <= cli.out.end
       /\ ~KnownPeriod(ToLowerTrimSpace(cli.name), cli.today)
          => /\ cli.out.err # "nil"
             /\ IsZero(cli.out.start)
             /\ IsZero(cli.out.end)

\* on February 29 of a leap year, last-month is January 1 to January 31
C26_Witness ==
    /\ cli.command = "ParseNamedPeriod"
    /\ cli.pc = "returned"
    /\ cli.name.key = Named("last-month")
    /\ IsLeap(Year(cli.today))
    /\ Month(cli.today) = 2
    /\ Day(cli.today) = 29
    /\ cli.out = [start |-> Date(Year(cli.today), 1, 1),
                  end |-> Date(Year(cli.today), 1, 31), err |-> "nil"]

(***************************************************************************)
(* The highlight command: generateHighlight starts one goroutine for Jira  *)
(* and one for GitHub, each with a buffered channel of its own, and waits  *)
(* for the two results.                                                    *)
(***************************************************************************)
ChanCap == 1

NoJira == [issues |-> 0, err |-> "nil"]
JiraResults == {[issues |-> 0, err |-> "nil"], [issues |-> 1, err |-> "nil"],
                [issues |-> 0, err |-> "jira"]}

NoGitHub == [activity |-> "nil", username |-> "", err |-> "nil"]
GitHubError(err) == [activity |-> "nil", username |-> "", err |-> err]
\* FetchComprehensiveUserActivityWithCache returns (activity, err)
FetchResults(username) ==
    {[activity |-> "activity", username |-> username, err |-> "nil"],
     [activity |-> "nil", username |-> username, err |-> "fetch"]}

Highlight(token, username) ==
    [command |-> "highlight", githubToken |-> token,
     githubUsername |-> username,
     jira |-> "fetch", github |-> "token", main |-> "jiraChan",
     jiraOut |-> NoJira, githubOut |-> NoGitHub,
     jiraChan |-> <<>>, githubChan |-> <<>>,
     jiraRes |-> NoJira, githubRes |-> NoGitHub,
     sent |-> <<>>, received |-> <<>>, err |-> "nil"]

\* a send on a buffered channel goes through when the buffer has room
CanSend(ch) == Len(ch) < ChanCap

\* the goroutine returning after a failed search with nothing sent
SearchFailedSilently(run) ==
    [run EXCEPT !.githubOut = GitHubError("search"), !.github = "done"]

\* the goroutine after SearchUserByEmail failed: it has its result to send
SearchFailed(run) ==
    [run EXCEPT !.githubOut = GitHubError("search"), !.github = "send"]

GetUserIssuesInDateRangeWithContext(out) ==
    /\ cli.command = "highlight"
    /\ cli.jira = "fetch"
    /\ cli' = [cli EXCEPT !.jiraOut = out, !.jira = "send"]
    /\ UNCHANGED disk

jiraChan_Send ==
    /\ cli.command = "highlight"
    /\ cli.jira = "send"
    /\ CanSend(cli.jiraChan)
    /\ cli' = [cli EXCEPT !.jiraChan = Append(@, cli.jiraOut),
                          !.sent = Append(@, "jira"), !.jira = "done"]
    /\ UNCHANGED disk

github_Token ==
    /\ cli.command = "highlight"
    /\ cli.github = "token"
    /\ cli' = IF cli.githubToken = ""
              THEN [cli EXCEPT !.githubOut = GitHubError("no GitHub token"),
                               !.github = "send"]
              ELSE IF cli.githubUsername # ""
              THEN [cli EXCEPT !.githubOut.username = cli.githubUsername,
                               !.github = "fetch"]
              ELSE [cli EXCEPT !.github = "search"]
    /\ UNCHANGED disk

SearchUserByEmail(found) ==
    /\ cli.command = "highlight"
    /\ cli.github = "search"
    /\ cli' = IF found
              THEN [cli EXCEPT !.githubOut.username = "found",
                               !.github = "fetch"]
              ELSE SearchFailed(cli)
    /\ UNCHANGED disk

FetchComprehensiveUserActivityWithCache ==
    /\ cli.command = "highlight"
    /\ cli.github = "fetch"
    /\ \E out \in FetchResults(cli.githubOut.username) :
          cli' = [cli EXCEPT !.githubOut = out, !.github = "send"]
    /\ UNCHANGED disk

githubChan_Send ==
    /\ cli.command = "highlight"
    /\ cli.github = "send"
    /\ CanSend(cli.githubChan)
    /\ cli' = [cli EXCEPT !.githubChan = Append(@, cli.githubOut),
                          !.sent = Append(@, "github"), !.github = "done"]
    /\ UNCHANGED disk

jiraChan_Receive ==
    /\ cli.command = "highlight"
    /\ cli.main = "jiraChan"
    /\ cli.jiraChan # <<>>
    /\ cli' = [cli EXCEPT !.jiraRes = Head(cli.jiraChan),
                          !.jiraChan = Tail(@),
                          !.received = Append(@, "jira"),
                          !.main = "githubChan"]
    /\ UNCHANGED disk

githubChan_Receive ==
    /\ cli.command = "highlight"
    /\ cli.main = "githubChan"
    /\ cli.githubChan # <<>>
    /\ cli' = [cli EXCEPT !.githubRes = Head(cli.githubChan),
                          !.githubChan = Tail(@),
                          !.received = Append(@, "github"),
                          !.main = "decide"]
    /\ UNCHANGED disk

\* return the Jira error, or go on to build the output
generateHighlight ==
    /\ cli.command = "highlight"
    /\ cli.main = "decide"
    /\ cli' = [cli EXCEPT !.main = IF cli.jiraRes.err # "nil" THEN "returned"
                                   ELSE "output",
                          !.err = IF cli.jiraRes.err # "nil"
                                  THEN "failed to fetch Jira data" ELSE "nil"]
    /\ UNCHANGED disk

HighlightInit ==
    /\ kinds = GitHubKinds
    /\ now = 0
    /\ entries = EmptyMap
    /\ metaDoc = NoDoc
    /\ files = EmptyMap
    /\ blocked = FALSE
    /\ last = NoOp
    /\ mu = Unlocked
    /\ goroutines = [g \in Goroutines |-> Idle]
    /\ \E token \in Tokens, username \in {"", "given"} :
          cli = Highlight(token, username)

HighlightNext ==
    \/ \E out \in JiraResults : GetUserIssuesInDateRangeWithContext(out)
    \/ jiraChan_Send
    \/ github_Token
    \/ \E found \in BOOLEAN : SearchUserByEmail(found)
    \/ FetchComprehensiveUserActivityWithCache
    \/ githubChan_Send
    \/ jiraChan_Receive
    \/ githubChan_Receive
    \/ generateHighlight

HighlightSpec == HighlightInit /\ [][HighlightNext]_vars

(***************************************************************************)
(* C29. Each of the two goroutines sends exactly one result on its own     *)
(* channel on every path, a goroutine that has a result to send can send   *)
(* it at once, the main flow receives the Jira result and then the GitHub  *)
(* result before it decides, and the join always completes: the run is     *)
(* never stuck before the main flow has decided and both goroutines have   *)
(* ended.                                                                  *)
(***************************************************************************)
Count(seq, x) == Cardinality({i \in 1..Len(seq) : seq[i] = x})

Joined ==
    /\ cli.main \in {"returned", "output"}
    /\ cli.jira = "done"
    /\ cli.github = "done"

C29_JoinCompletes ==
    cli.command = "highlight"
    => /\ Count(cli.sent, "jira") = (IF cli.jira = "done" THEN 1 ELSE 0)
       /\ Count(cli.sent, "github") = (IF cli.github = "done" THEN 1 ELSE 0)
       /\ Len(cli.jiraChan) <= ChanCap /\ Len(cli.githubChan) <= ChanCap
       /\ cli.jira = "send" => CanSend(cli.jiraChan)
       /\ cli.github = "send" => CanSend(cli.githubChan)
       /\ cli.main \in {"decide", "returned", "output"}
          => /\ cli.received = <<"jira", "github">>
             /\ cli.jiraRes = cli.jiraOut
             /\ cli.githubRes = cli.githubOut
       /\ cli.main = "githubChan" => cli.received = <<"jira">>
       /\ cli.main = "jiraChan" => cli.received = <<>>
       /\ Joined \/ ENABLED HighlightNext

\* the user search failed, Jira succeeded, and the output is being built
\* with both results received
C29_Witness ==
    /\ cli.command = "highlight"
    /\ Joined
    /\ cli.main = "output"
    /\ cli.githubRes = GitHubError("search")
    /\ cli.jiraRes.err = "nil"
    /\ cli.sent = <<"github", "jira">>
    /\ cli.received = <<"jira", "github">>

(***************************************************************************)
(* Construction from a metadata document of any content.  A Go map is      *)
(* either nil or made; json.Unmarshal decodes into the CacheMetadata that  *)
(* NewCache has already filled with a made, empty map.                     *)
(***************************************************************************)
NilMap == [nil |-> TRUE, m |-> EmptyMap]
MakeMap(m) == [nil |-> FALSE, m |-> m]

OneEntry(path) ==
    [p \in {path} |->
        [created |-> 0, expires |-> ActivityTTL, type |-> "activity",
         key |-> Join3(ConcIdent[1], US, ConcIdent[2], ConcIdent[3])]]

\* what metadata.json can hold: no file, text that is not JSON, the JSON
\* null, and objects whose "entries" member is missing, null, a number or
\* an object
Documents ==
    {[json |-> j, field |-> "missing", entries |-> EmptyMap] :
        j \in {"absent", "malformed", "null"}}
        \cup {[json |-> "object", field |-> f, entries |-> EmptyMap] :
                f \in {"missing", "null", "number", "object"}}
        \cup {[json |-> "object", field |-> "object",
               entries |-> OneEntry(ConcPath)]}

\* os.ReadFile followed by json.Unmarshal(data, c.metadata); into is the
\* map c.metadata.Entries holds before the call
Unmarshal(doc, into) ==
    CASE doc.json \in {"absent", "malformed"} -> [err |-> TRUE, Entries |-> into]
      [] doc.json = "null" -> [err |-> FALSE, Entries |-> into]
      [] doc.field = "missing" -> [err |-> FALSE, Entries |-> into]
      [] doc.field = "null" -> [err |-> FALSE, Entries |-> NilMap]
      [] doc.field = "number" -> [err |-> TRUE, Entries |-> into]
      [] OTHER ->
            [err |-> FALSE,
             Entries |-> MakeMap(
                [p \in DOMAIN into.m \cup DOMAIN doc.entries |->
                    IF p \in DOMAIN doc.entries THEN doc.entries[p]
                    ELSE into.m[p]])]

\* a manager over a document, before NewCache has run
Construct(doc) ==
    [command |-> "NewCache", doc |-> doc, pc |-> "NewCache",
     Entries |-> NilMap, op |-> "none", total |-> 0]

NewCache_loadMetadata ==
    /\ cli.command = "NewCache"
    /\ cli.pc = "NewCache"
    /\ LET loaded == Unmarshal(cli.doc, MakeMap(EmptyMap))
       IN  cli' = [cli EXCEPT
                      !.pc = "constructed",
                      !.Entries = IF loaded.err THEN MakeMap(EmptyMap)
                                  ELSE loaded.Entries]
    /\ UNCHANGED disk

\* Set: the assignment c.metadata.Entries[path] = ... of updateMetadata
\* panics on a nil map
Set_updateMetadata(ident) ==
    /\ cli.command = "NewCache"
    /\ cli.pc = "constructed"
    /\ cli' = IF cli.Entries.nil
              THEN [cli EXCEPT !.pc = "panicked", !.op = "Set"]
              ELSE [cli EXCEPT
                       !.op = "Set",
                       !.Entries = MakeMap(
                           updateMetadata(
                               cli.Entries.m,
                               ActivityPath(ident[1], ident[2], ident[3]),
                               "activity",
                               Join3(ident[1], US, ident[2], ident[3]),
                               ActivityTTL, now))]
    /\ UNCHANGED disk

\* GetCacheStats ranges over the map; a nil map has no entries
GetCacheStats_Range ==
    /\ cli.command = "NewCache"
    /\ cli.pc = "constructed"
    /\ cli' = [cli EXCEPT !.op = "GetCacheStats",
                          !.total = Cardinality(DOMAIN cli.Entries.m)]
    /\ UNCHANGED disk

\* Clear: c.metadata.Entries = make(map[string]CacheMetadataEntry)
Clear_Make ==
    /\ cli.command = "NewCache"
    /\ cli.pc = "constructed"
    /\ cli' = [cli EXCEPT !.op = "Clear", !.Entries = MakeMap(EmptyMap)]
    /\ UNCHANGED disk

\* CleanExpired ranges over the map and deletes from it; nothing here has
\* expired
CleanExpired_Range ==
    /\ cli.command = "NewCache"
    /\ cli.pc = "constructed"
    /\ ExpiredPaths(cli.Entries.m, now) = {}
    /\ cli' = [cli EXCEPT !.op = "CleanExpired"]
    /\ UNCHANGED disk

LoadInit ==
    /\ kinds = {"activity"}
    /\ now \in 0..MaxEarly
    /\ entries = EmptyMap
    /\ metaDoc = NoDoc
    /\ files = EmptyMap
    /\ blocked = FALSE
    /\ last = NoOp
    /\ mu = Unlocked
    /\ goroutines = [g \in Goroutines |-> Idle]
    /\ \E doc \in Documents : cli = Construct(doc)

LoadNext ==
    \/ NewCache_loadMetadata
    \/ \E ident \in ActivityIdents : Set_updateMetadata(ident)
    \/ GetCacheStats_Range
    \/ Clear_Make
    \/ CleanExpired_Range

LoadSpec == LoadInit /\ [][LoadNext]_vars

(***************************************************************************)
(* C30. Whatever the metadata document holds, the constructed manager has  *)
(* a made index map, and a following Set, GetCacheStats, Clear or          *)
(* CleanExpired completes without a panic.                                 *)
(***************************************************************************)
C30_IndexInitialized ==
    cli.command = "NewCache"
    => /\ cli.pc = "constructed" => ~cli.Entries.nil
       /\ cli.pc # "panicked"

(***************************************************************************)
(* Several goroutines, each with one Get for an identity of its own, over  *)
(* a cache in some state the calls before have left: per path no index     *)
(* entry, an expired or a fresh one, and no blob, a damaged one or the      *)
(* blob of an identity, old or recent.  cli holds the identity each         *)
(* goroutine asks for and the result its Get has when it runs alone.        *)
(***************************************************************************)
ReadIdents == ActivityIdents \cup { << <<"a">>, <<"c">>, <<"d">> >> }

PathOfIdent(ident) == ActivityPath(ident[1], ident[2], ident[3])

\* the hour of the Gets: what was written at hour 0 has expired by now
ReadHour == ActivityTTL + 1

\* the index entries and blob files a path can have
EntriesAt(path) ==
    {EmptyMap}
        \cup { updateMetadata(EmptyMap, path, "activity",
                              Join3(i[1], US, i[2], i[3]), ActivityTTL, t) :
                 i \in {j \in ReadIdents : PathOfIdent(j) = path},
                 t \in {0, ReadHour - 1} }

FilesAt(path) ==
    {EmptyMap, WriteFile(EmptyMap, path, Garbage)}
        \cup { WriteFile(EmptyMap, path,
                         Marshal([key |-> <<>>, body |-> "P1"], t, i)) :
                 i \in {j \in ReadIdents : PathOfIdent(j) = path},
                 t \in {0, ReadHour - 1} }

\* the union of per-path maps
RECURSIVE Merge(_)
Merge(maps) ==
    IF maps = {} THEN EmptyMap
    ELSE LET m == CHOOSE x \in maps : TRUE
             rest == Merge(maps \ {m})
         IN  [p \in DOMAIN m \cup DOMAIN rest |->
                 IF p \in DOMAIN m THEN m[p] ELSE rest[p]]

ReadPaths == {PathOfIdent(i) : i \in ReadIdents}

\* the part of Get after isExpired has answered false
ReadOutcome(ident, fs, t) ==
    GetOutcome(ident[1], ident[2], ident[3],
               [p \in {PathOfIdent(ident)} |-> [expires |-> t]], fs, t)

ConcurrentGet_RLock(g) ==
    /\ cli.command = "Get"
    /\ goroutines[g].pc = "idle"
    /\ CanRLock(mu)
    /\ mu' = RLock(mu, g)
    /\ goroutines' = Begin(g, "Get", NilData, "isExpired")
    /\ UNCHANGED <<kinds, now, entries, metaDoc, files, blocked, last, cli>>

ConcurrentGet_RUnlock(g) ==
    /\ cli.command = "Get"
    /\ goroutines[g].pc = "isExpired"
    /\ mu' = RUnlock(mu, g)
    /\ goroutines' = [goroutines EXCEPT
                         ![g].expired =
                             isExpired(entries, PathOfIdent(cli.ident[g]), now),
                         ![g].pc = "Get"]
    /\ UNCHANGED <<kinds, now, entries, metaDoc, files, blocked, last, cli>>

\* os.Remove of an expired entry's blob, or os.ReadFile, json.Unmarshal and
\* the checks of the blob; the call returns and the goroutine ends
ConcurrentGet_File(g) ==
    LET ident == cli.ident[g]
        out == IF goroutines[g].expired THEN NotFound(TRUE)
               ELSE ReadOutcome(ident, files, now)
    IN  /\ cli.command = "Get"
        /\ goroutines[g].pc = "Get"
        /\ files' = IF out.removes THEN Remove(files, PathOfIdent(ident))
                    ELSE files
        /\ goroutines' = [goroutines EXCEPT
                             ![g] = [pc |-> "returned", op |-> "Get",
                                     data |-> out.data, found |-> out.found]]
        /\ UNCHANGED <<kinds, now, entries, metaDoc, blocked, last, mu, cli>>

ReadInit ==
    /\ kinds = {"activity"}
    /\ now = ReadHour
    /\ \E index \in [ReadPaths -> UNION {EntriesAt(p) : p \in ReadPaths}],
          blobs \in [ReadPaths -> UNION {FilesAt(p) : p \in ReadPaths}] :
          /\ \A p \in ReadPaths :
                index[p] \in EntriesAt(p) /\ blobs[p] \in FilesAt(p)
          /\ entries = Merge({index[p] : p \in ReadPaths})
          /\ files = Merge({blobs[p] : p \in ReadPaths})
    /\ metaDoc = saveMetadata(entries)
    /\ blocked = FALSE
    /\ last = NoOp
    /\ mu = Unlocked
    /\ goroutines = [g \in Goroutines |-> Idle]
    /\ \E ident \in [Goroutines -> ReadIdents] :
          /\ \A g, h \in Goroutines : ident[g] = ident[h] => g = h
          /\ cli = [command |-> "Get", ident |-> ident,
                    alone |-> [g \in Goroutines |->
                                  Answer("activity", ident[g], entries,
                                         files, now)]]

ReadNext ==
    \/ \E g \in Goroutines : ConcurrentGet_RLock(g)
    \/ \E g \in Goroutines : ConcurrentGet_RUnlock(g)
    \/ \E g \in Goroutines : ConcurrentGet_File(g)

ReadSpec == ReadInit /\ [][ReadNext]_vars

(***************************************************************************)
(* C24. Concurrent Gets for different identities return what each returns  *)
(* when it runs alone or after the others: found with the stored payload   *)
(* for an identity cached and fresh, not-found otherwise; and the index is *)
(* read only under the read lock, with no writer in it.                    *)
(***************************************************************************)
CachedFresh(ident) ==
    LET path == PathOfIdent(ident)
    IN  /\ path \in DOMAIN entries
        /\ ~After(now, entries[path].expires)
        /\ path \in DOMAIN files
        /\ ~UnmarshalFails(files[path])
        /\ files[path].ident = ident
        /\ now - files[path].timestamp <= ActivityTTL

Calls ==
    {[op |-> "Clear", ident |-> <<>>], [op |-> "Set", ident |-> ConcIdent]}
        \cup {[op |-> "SetPR", ident |-> i] : i \in PRIdents \cup IssueIdents}

CallPath(call) ==
    IF call.op = "Set"
    THEN ActivityPath(call.ident[1], call.ident[2], call.ident[3])
    ELSE PRPath(call.ident[1], call.ident[2], call.ident[3])

CallKey(call) ==
    IF call.op = "Set"
    THEN Join3(call.ident[1], US, call.ident[2], call.ident[3])
    ELSE PRKey(call.ident[1], call.ident[2], call.ident[3])

\* Set, SetPR: json.Marshal and os.WriteFile of the blob
Call_WriteFile(g, data, outcome) ==
    LET call == cli.call[g]
    IN  /\ cli.command = "calls"
        /\ goroutines[g].pc = "idle"
        /\ call.op \in {"Set", "SetPR"}
        /\ files' = IF outcome = "blob" THEN files
                    ELSE WriteFile(files, CallPath(call),
                                   Marshal(data, now, call.ident))
        /\ goroutines' = [goroutines EXCEPT
                             ![g] = [pc |-> IF outcome = "blob" THEN "returned"
                                            ELSE "updateMetadata",
                                     op |-> call.op, data |-> data,
                                     err |-> outcome = "blob"]]
        /\ UNCHANGED <<kinds, now, entries, metaDoc, blocked, last, mu, cli>>

\* updateMetadata under the lock, with c.ttl for a Set and 24 hours for a
\* SetPR
Call_updateMetadata(g) ==
    LET call == cli.call[g]
    IN  /\ cli.command = "calls"
        /\ goroutines[g].pc = "updateMetadata.locked"
        /\ entries' = updateMetadata(
                          entries, CallPath(call),
                          IF call.op = "Set" THEN "activity" ELSE "pr",
                          CallKey(call),
                          IF call.op = "Set" THEN ActivityTTL ELSE PRTTL, now)
        /\ mu' = Unlock(mu)
        /\ goroutines' = Goto(g, "saveMetadata")
        /\ UNCHANGED <<kinds, now, metaDoc, files, blocked, last, cli>>

\* saveMetadata under the lock; the call returns what it returns
Call_saveMetadata(g, outcome) ==
    /\ cli.command = "calls"
    /\ goroutines[g].pc = "saveMetadata.locked"
    /\ metaDoc' = IF outcome = "meta" THEN metaDoc ELSE saveMetadata(entries)
    /\ mu' = Unlock(mu)
    /\ goroutines' = [goroutines EXCEPT ![g].pc = "returned",
                                        ![g].err = outcome = "meta"]
    /\ UNCHANGED <<kinds, now, entries, files, blocked, last, cli>>

\* Clear: os.ReadDir and os.Remove over the subdirectories
Call_Clear_Remove(g, outcome) ==
    /\ cli.command = "calls"
    /\ goroutines[g].pc = "idle"
    /\ cli.call[g].op = "Clear"
    /\ files' = IF outcome = "list" THEN files ELSE EmptyMap
    /\ goroutines' = [goroutines EXCEPT
                         ![g] = [pc |-> "Clear", op |-> "Clear",
                                 data |-> NilData, err |-> FALSE,
                                 listed |-> outcome # "list"]]
    /\ UNCHANGED <<kinds, now, entries, metaDoc, blocked, last, mu, cli>>

CallsInit ==
    /\ kinds = GitHubKinds
    /\ now = 0
    /\ entries = EmptyMap
    /\ metaDoc = NoDoc
    /\ files = EmptyMap
    /\ blocked = FALSE
    /\ last = NoOp
    /\ mu = Unlocked
    /\ goroutines = [g \in Goroutines |-> Idle]
    /\ \E call \in [Goroutines -> Calls] :
          cli = [command |-> "calls", call |-> call]

CallsNext ==
    \/ \E g \in Goroutines, d \in GitHubData, o \in {"ok", "blob"} :
          Call_WriteFile(g, d, o)
    \/ \E g \in Goroutines : updateMetadata_Lock(g)
    \/ \E g \in Goroutines : Call_updateMetadata(g)
    \/ \E g \in Goroutines : saveMetadata_Lock(g)
    \/ \E g \in Goroutines, o \in {"ok", "meta"} : Call_saveMetadata(g, o)
    \/ \E g \in Goroutines, o \in {"ok", "list"} : Call_Clear_Remove(g, o)
    \/ \E g \in Goroutines : Clear_Lock(g)
    \/ \E g \in Goroutines : Clear_Unlock(g)

CallsSpec == CallsInit /\ [][CallsNext]_vars

(***************************************************************************)
(* C27. Two SetPR calls for distinct identities run concurrently: once     *)
(* both have returned without error, the index and the metadata document   *)
(* hold the entry of each, and GetPR returns the payload of each.          *)
(***************************************************************************)
Kept(g) ==
    LET call == cli.call[g]
        path == CallPath(call)
    IN  /\ path \in DOMAIN entries
        /\ entries[path].key = CallKey(call)
        /\ metaDoc.json = "object"
        /\ path \in DOMAIN metaDoc.entries
        /\ metaDoc.entries[path] = entries[path]
        /\ Answer("pr", call.ident, entries, files, now)
               = <<goroutines[g].data, TRUE>>

C27_ConcurrentSetsKept ==
    ( /\ cli.command = "calls"
      /\ \A g \in Goroutines : cli.call[g].op = "SetPR"
      /\ \A g, h \in Goroutines : cli.call[g] = cli.call[h] => g = h
      /\ \A g \in Goroutines :
            goroutines[g].pc = "returned" /\ ~goroutines[g].err )
    => \A g \in Goroutines : Kept(g)

(***************************************************************************)
(* C28. A Clear and a Set(I, P) run concurrently: once both have returned  *)
(* (here: without an error, the Clear having listed its directories), I    *)
(* has an index entry and a blob file, or it has neither.                  *)
(***************************************************************************)
C28_ClearSetAgree ==
    ( /\ cli.command = "calls"
      /\ \E g \in Goroutines : cli.call[g].op = "Clear"
      /\ \E g \in Goroutines : cli.call[g].op = "Set"
      /\ \A g \in Goroutines :
            /\ cli.call[g].op \in {"Clear", "Set"}
            /\ goroutines[g].pc = "returned"
            /\ ~goroutines[g].err
            /\ cli.call[g].op = "Clear" => goroutines[g].listed )
    => (ConcPath \in DOMAIN entries <=> ConcPath \in DOMAIN files)

====
